---- MODULE Spec2Model ----
(***************************************************************************)
(* Model of the message reconciliation engine of the WhatsApp verification *)
(* checker: MessageMatcher (normalizeMessage, calculateSimilarity,         *)
(* matchMessages, batchMatchMessages) as driven by a verification request. *)
(*                                                                         *)
(* Text is a sequence of one-character strings.  A similarity score is an  *)
(* exact fraction [num, den] in lowest terms.  Thresholds are in percent.  *)
(***************************************************************************)
EXTENDS Integers, Sequences, FiniteSets, TLC

(***************************************************************************)
(* Bounds of the model.                                                    *)
(***************************************************************************)
MaxDb == 3          \* longest list of internal (database) records
MaxApi == 2         \* longest pool of external (API) records
MaxBatchSize == 3   \* largest batchSize handed to batchMatchMessages

(***************************************************************************)
(* Program constants (config/constants.js), thresholds in percent.         *)
(***************************************************************************)
SIMILARITY_THRESHOLD == 90
MAX_SIMILARITY_THRESHOLD == 100
FIRST_MESSAGE == "first_message"
FOLLOW_UP == "follow_up"
\* A document without type_of_message.
NoType == "<undefined>"

(***************************************************************************)
(* Characters.  \s of a JavaScript regular expression, \w, and the upper   *)
(* case letters String.prototype.toLowerCase changes.                      *)
(***************************************************************************)
WhiteSpace == {" ", "\t", "\n"}
LowerCase == {"a", "b", "c", "d", "e", "f", "g", "x", "y"}
UpperCase == {"A", "B", "C"}
Digits == {"0", "1"}
WordChars == LowerCase \cup UpperCase \cup Digits \cup {"_"}

toLowerCaseChar(c) ==
  CASE c = "A" -> "a"
    [] c = "B" -> "b"
    [] c = "C" -> "c"
    [] OTHER -> c

\* The value of a missing (null or undefined) message text.
Null == <<"<null>">>

\* The outcome of a call that throws a TypeError instead of returning.
TypeError == <<"<TypeError>">>

\* The time value of an Invalid Date (NaN): every comparison with it is false.
NaN == -1

(***************************************************************************)
(* Exact fractions.                                                        *)
(***************************************************************************)
RECURSIVE GCD(_, _)
GCD(a, b) == IF b = 0 THEN a ELSE GCD(b, a % b)

Frac(n, d) == LET g == GCD(n, d) IN [num |-> n \div g, den |-> d \div g]
Zero == [num |-> 0, den |-> 1]
One == [num |-> 1, den |-> 1]
FracGT(a, b) == a.num * b.den > b.num * a.den
FracGE(a, b) == a.num * b.den >= b.num * a.den
FracAdd(a, b) == Frac(a.num * b.den + b.num * a.den, a.den * b.den)
\* GEPct with the score taken for a percentage: score * 100 >= pct / 100.
GEPctOfPercentage(a, pct) == a.num * 100 * 100 >= pct * a.den

\* score >= pct / 100
GEPct(a, pct) == a.num * 100 >= pct * a.den

(***************************************************************************)
(* normalizeMessage: the four string operations, in the code's order.      *)
(***************************************************************************)
RECURSIVE toLowerCase(_)
toLowerCase(s) ==
  IF s = <<>> THEN <<>> ELSE <<toLowerCaseChar(Head(s))>> \o toLowerCase(Tail(s))

\* replace(/\s+/g, ' '): every maximal run of whitespace becomes one space.
RECURSIVE collapseWhitespace(_)
collapseWhitespace(s) ==
  IF s = <<>> THEN <<>>
  ELSE IF Head(s) \in WhiteSpace
       THEN IF Len(s) > 1 /\ s[2] \in WhiteSpace
            THEN collapseWhitespace(Tail(s))
            ELSE <<" ">> \o collapseWhitespace(Tail(s))
       ELSE <<Head(s)>> \o collapseWhitespace(Tail(s))

\* replace(/[^\w\s]/g, ''): drop what is neither a word character nor whitespace.
stripPunctuation(s) == SelectSeq(s, LAMBDA c : c \in WordChars \cup WhiteSpace)

RECURSIVE trimStart(_)
trimStart(s) ==
  IF s # <<>> /\ Head(s) \in WhiteSpace THEN trimStart(Tail(s)) ELSE s

RECURSIVE trimEnd(_)
trimEnd(s) ==
  IF s # <<>> /\ s[Len(s)] \in WhiteSpace
  THEN trimEnd(SubSeq(s, 1, Len(s) - 1)) ELSE s

trim(s) == trimEnd(trimStart(s))

\* message.toLowerCase() of a missing message throws: null has no methods.
normalizeMessage(message) ==
  IF message = Null THEN TypeError
  ELSE trim(stripPunctuation(collapseWhitespace(toLowerCase(message))))

(***************************************************************************)
(* stringSimilarity.compareTwoStrings (string-similarity 4.x): the Dice    *)
(* coefficient over character bigrams, after removing all whitespace.      *)
(***************************************************************************)
removeWhitespace(s) == SelectSeq(s, LAMBDA c : c \notin WhiteSpace)

\* How often the bigram bg occurs in s at positions i..Len(s)-1.
RECURSIVE bigramCount(_, _, _)
bigramCount(s, bg, i) ==
  IF i >= Len(s) THEN 0
  ELSE (IF <<s[i], s[i + 1]>> = bg THEN 1 ELSE 0) + bigramCount(s, bg, i + 1)

\* The second loop without the decrement of the bigram taken.
RECURSIVE intersectionSizeNeverTaking(_, _, _, _)
intersectionSizeNeverTaking(first, second, i, used) ==
  IF i >= Len(second) THEN 0
  ELSE (IF bigramCount(first, <<second[i], second[i + 1]>>, 1) > 0 THEN 1 ELSE 0)
       + intersectionSizeNeverTaking(first, second, i + 1, used)

\* The second loop: each bigram of second, in order, takes one remaining
\* occurrence of the same bigram of first; used[bg] counts the ones taken.
RECURSIVE intersectionSize(_, _, _, _)
intersectionSize(first, second, i, used) ==
  IF i >= Len(second) THEN 0
  ELSE LET bg == <<second[i], second[i + 1]>>
           taken == Len(SelectSeq(used, LAMBDA u : u = bg))
       IN IF bigramCount(first, bg, 1) - taken > 0
          THEN 1 + intersectionSize(first, second, i + 1, Append(used, bg))
          ELSE intersectionSize(first, second, i + 1, used)

compareTwoStrings(a, b) ==
  LET first == removeWhitespace(a)
      second == removeWhitespace(b)
  IN IF first = second THEN One
     ELSE IF Len(first) < 2 \/ Len(second) < 2 THEN Zero
     ELSE Frac(2 * intersectionSize(first, second, 1, <<>>),
               Len(first) + Len(second) - 2)

\* !message of JavaScript: null, undefined and the empty string.
Falsy(message) == message = Null \/ message = <<>>

\* calculateSimilarity comparing the raw texts.
calculateSimilarityRaw(dbMessage, apiMessage) ==
  IF Falsy(dbMessage) \/ Falsy(apiMessage) THEN Zero
  ELSE compareTwoStrings(dbMessage, apiMessage)

calculateSimilarity(dbMessage, apiMessage) ==
  IF Falsy(dbMessage) \/ Falsy(apiMessage) THEN Zero
  ELSE compareTwoStrings(normalizeMessage(dbMessage), normalizeMessage(apiMessage))

(***************************************************************************)
(* The records.  An internal record is a Messages document (models/        *)
(* Messages.js); an external record is a message as whatsappApi transforms *)
(* it.  Undefined is the value of a field that is not there.               *)
(***************************************************************************)
Undefined == -2

T_abcdef == <<"a", "b", "c", "d", "e", "f">>
T_Abcdef_bang == <<"A", "b", "c", "d", "e", "f", "!">>
T_abc_def == <<"a", "b", "c", " ", "d", "e", "f">>
T_abcdefg == <<"a", "b", "c", "d", "e", "f", "g">>
T_abcde == <<"a", "b", "c", "d", "e">>
T_xy == <<"x", "y">>

DbMsg(id, message, sent, type, phone) ==
  [_id |-> id, message |-> message, sent_date |-> sent, type_of_message |-> type,
   phone_number |-> phone, role |-> "assistant"]

DbRecords ==
  { DbMsg(1, T_abcdef, 2, FIRST_MESSAGE, "p1"),
    DbMsg(2, T_abcdef, 2, FOLLOW_UP, "p1"),
    DbMsg(3, T_Abcdef_bang, 1, FOLLOW_UP, "p2"),
    DbMsg(4, T_abcde, 1, FIRST_MESSAGE, "p2"),
    DbMsg(5, T_xy, 3, NoType, "p1"),
    DbMsg(6, <<>>, 2, FIRST_MESSAGE, "p2") }

ApiMsg(message, body, timestamp, sent) ==
  [message |-> message, body |-> body, timestamp |-> timestamp, sent_date |-> sent]

ApiRecords ==
  { ApiMsg(T_abcdef, T_abcdef, 2, Undefined),
    ApiMsg(T_abcdefg, T_abcdefg, 3, Undefined),
    ApiMsg(T_abcdef, T_abcdef, 1, Undefined),
    ApiMsg(Null, T_abc_def, Undefined, 2),
    ApiMsg(<<>>, <<>>, 3, Undefined),
    ApiMsg(T_xy, T_xy, NaN, Undefined) }

\* The thresholds a request may carry, in percent; the first fails validation.
MatchingThresholds == {85, 90, 95}

\* Sequences over S of length at most n.
SeqsUpTo(S, n) == UNION { [1..m -> S] : m \in 0..n }

\* Messages.find(query).sort({ sent_date: 1 }): ascending sent_date, each
\* document once.
SortedDbLists ==
  { s \in SeqsUpTo(DbRecords, MaxDb) :
      /\ \A a, b \in 1..Len(s) : a < b => s[a].sent_date <= s[b].sent_date
      /\ \A a, b \in 1..Len(s) : a # b => s[a]._id # s[b]._id }

(***************************************************************************)
(* JavaScript operators used by matchMessages.                             *)
(***************************************************************************)
\* a > b on two Dates: false when either is an Invalid Date.
DateGT(a, b) == a # NaN /\ b # NaN /\ a > b

\* new Date(apiMsg.timestamp || apiMsg.sent_date): a Date object is truthy even
\* when invalid; new Date(undefined) is an Invalid Date.
apiDate(apiMsg) ==
  IF apiMsg.timestamp # Undefined THEN apiMsg.timestamp
  ELSE IF apiMsg.sent_date # Undefined THEN apiMsg.sent_date
  ELSE NaN

\* apiMsg.message || apiMsg.body
apiText(apiMsg) == IF Falsy(apiMsg.message) THEN apiMsg.body ELSE apiMsg.message

\* apiMsg.timestamp || apiMsg.sent_date, as stored in a Matched outcome.
apiTimestamp(apiMsg) ==
  IF apiMsg.timestamp # Undefined THEN apiMsg.timestamp ELSE apiMsg.sent_date

\* (x * 100).toFixed(2), in hundredths of a percent, rounding half up.
toFixed2(x) == (2 * x.num * 10000 + x.den) \div (2 * x.den)

(***************************************************************************)
(* matchMessages: the search for the best external record (lines 64-94).   *)
(***************************************************************************)
NO_MATCH_REASON == "No matching message found"
BELOW_THRESHOLD_REASON == "Below similarity threshold"

\* let bestMatch = null; let bestScore = 0; let bestIndex = -1;
\* bestMatch is <<>> for null and <<apiMsg>> for a record.
NoBest == [bestMatch |-> <<>>, bestScore |-> Zero, bestIndex |-> -1]

\* AlreadyMatched with the check left out.
AlreadyMatchedNever(consumed, idx) == FALSE

\* AlreadyMatched looking up the 1-based position.
AlreadyMatchedOneBased(consumed, idx) == (idx + 1) \in consumed

\* if (matchedApiIndices.has(i)) continue;
AlreadyMatched(consumed, idx) == idx \in consumed

\* TooEarly with the comparison turned round: apiDate > dbDate.
TooEarlyReversed(dbMsg, apiMsg) == DateGT(apiDate(apiMsg), dbMsg.sent_date)

\* if (dbDate > apiDate) continue;
TooEarly(dbMsg, apiMsg) == DateGT(dbMsg.sent_date, apiDate(apiMsg))

\* IsBetter with >= for >: a later record of equal score replaces the best.
IsBetterOrEqual(similarity, bestScore) ==
  FracGE(similarity, bestScore) /\ GEPct(similarity, SIMILARITY_THRESHOLD)

\* if (similarity > bestScore && similarity >= MATCHING.SIMILARITY_THRESHOLD)
IsBetter(similarity, bestScore) ==
  FracGT(similarity, bestScore) /\ GEPct(similarity, SIMILARITY_THRESHOLD)

\* The inner for loop over apiMessagesCopy, from position idx (0-based) on.
RECURSIVE findBest(_, _, _, _, _)
findBest(dbMsg, pool, consumed, idx, best) ==
  IF idx >= Len(pool) THEN best
  ELSE IF AlreadyMatched(consumed, idx) THEN findBest(dbMsg, pool, consumed, idx + 1, best)
  ELSE LET apiMsg == pool[idx + 1] IN
       IF TooEarly(dbMsg, apiMsg) THEN findBest(dbMsg, pool, consumed, idx + 1, best)
       ELSE LET similarity == calculateSimilarity(dbMsg.message, apiText(apiMsg)) IN
            IF IsBetter(similarity, best.bestScore)
            THEN findBest(dbMsg, pool, consumed, idx + 1,
                          [bestMatch |-> <<apiMsg>>, bestScore |-> similarity,
                           bestIndex |-> idx])
            ELSE findBest(dbMsg, pool, consumed, idx + 1, best)

\* if (bestMatch && bestScore >= MATCHING.SIMILARITY_THRESHOLD)
IsMatch(best) == best.bestMatch # <<>> /\ GEPct(best.bestScore, SIMILARITY_THRESHOLD)

(***************************************************************************)
(* The outcomes and the statistics.                                        *)
(***************************************************************************)
\* The dbMessage object of an outcome.
DbView(dbMsg) ==
  [id |-> dbMsg._id, message |-> dbMsg.message, phoneNumber |-> dbMsg.phone_number,
   sentDate |-> dbMsg.sent_date, role |-> dbMsg.role, type |-> dbMsg.type_of_message]

\* results.matched.push({...}); apiIndex is bestIndex, the pool position the
\* code adds to matchedApiIndices, kept with the outcome to state properties.
MatchedOutcome(dbMsg, best) ==
  [dbMessage |-> DbView(dbMsg),
   apiMessage |-> [message |-> apiText(best.bestMatch[1]),
                   timestamp |-> apiTimestamp(best.bestMatch[1])],
   confidenceScore |-> best.bestScore,
   similarityPercentage |-> toFixed2(best.bestScore),
   apiIndex |-> best.bestIndex]

\* results.unmatched.push({...})
UnmatchedOutcome(dbMsg, best) ==
  [dbMessage |-> DbView(dbMsg),
   bestMatchScore |-> best.bestScore,
   reason |-> IF FracGT(best.bestScore, Zero)
              THEN BELOW_THRESHOLD_REASON ELSE NO_MATCH_REASON]

\* averageConfidence: the number 0 until it is set, then a formatted percentage
\* (in hundredths of a percent).
NoAverage == [formatted |-> FALSE, hundredths |-> 0]

EmptyResults(nDb, nApi) ==
  [matched |-> <<>>, unmatched |-> <<>>,
   statistics |-> [totalDbMessages |-> nDb, totalApiMessages |-> nApi,
                   matchedCount |-> 0, unmatchedCount |-> 0,
                   averageConfidence |-> NoAverage,
                   firstMessageStats |-> [total |-> 0, matched |-> 0, unmatched |-> 0]]]

RECURSIVE totalConfidence(_)
totalConfidence(matched) ==
  IF matched = <<>> THEN Zero
  ELSE FracAdd(matched[1].confidenceScore, totalConfidence(Tail(matched)))

\* (totalConfidence / matched.length * 100).toFixed(2) + '%'
averageOf(matched) ==
  LET t == totalConfidence(matched)
  IN [formatted |-> TRUE, hundredths |-> toFixed2(Frac(t.num, t.den * Len(matched)))]

\* withAverage leaving the average as it is.
withAverageKept(r) == r

\* if (matched.length > 0) statistics.averageConfidence = ...
withAverage(r) ==
  IF Len(r.matched) > 0
  THEN [r EXCEPT !.statistics.averageConfidence = averageOf(r.matched)]
  ELSE r

isFirst(dbMsg) == dbMsg.type_of_message = FIRST_MESSAGE
inc(b) == IF b THEN 1 ELSE 0

(***************************************************************************)
(* matchMessages as a function of its two arguments.                       *)
(***************************************************************************)

\* countFirst without its condition: every record is counted.
countFirstAlways(r, dbMsg) ==
  [r EXCEPT !.statistics.firstMessageStats.total = @ + 1]

\* if (dbMsg.type_of_message === FIRST_MESSAGE) firstMessageStats.total++
countFirst(r, dbMsg) ==
  [r EXCEPT !.statistics.firstMessageStats.total = @ + inc(isFirst(dbMsg))]

\* The outcome of dbMsg pushed on results, with its counters (lines 96-139).
pushOutcome(r, dbMsg, b) ==
  IF IsMatch(b)
  THEN [r EXCEPT
          !.matched = Append(@, MatchedOutcome(dbMsg, b)),
          !.statistics.matchedCount = @ + 1,
          !.statistics.firstMessageStats.matched = @ + inc(isFirst(dbMsg))]
  ELSE [r EXCEPT
          !.unmatched = Append(@, UnmatchedOutcome(dbMsg, b)),
          !.statistics.unmatchedCount = @ + 1,
          !.statistics.firstMessageStats.unmatched = @ + inc(isFirst(dbMsg))]

\* consume forgetting the position: nothing is ever added to the set.
consumeNothing(consumed, b) == consumed

\* if (bestMatch && bestScore >= threshold) matchedApiIndices.add(bestIndex)
consume(consumed, b) == IF IsMatch(b) THEN consumed \cup {b.bestIndex} ELSE consumed

\* The for-of loop of matchMessages from record n + 1 of dbMsgs on.
RECURSIVE forEachFrom(_, _, _, _, _)
forEachFrom(dbMsgs, pool, n, consumed, r) ==
  IF n >= Len(dbMsgs) THEN r
  ELSE LET dbMsg == dbMsgs[n + 1]
           b == findBest(dbMsg, pool, consumed, 0, NoBest)
       IN forEachFrom(dbMsgs, pool, n + 1, consume(consumed, b),
                      pushOutcome(countFirst(r, dbMsg), dbMsg, b))

\* matchMessages(dbMessages, apiMessages)
matchMessages(dbMsgs, pool) ==
  withAverage(forEachFrom(dbMsgs, pool, 0, {},
                          EmptyResults(Len(dbMsgs), Len(pool))))

(***************************************************************************)
(* VerificationService.generateVerificationReport and the analysis that    *)
(* VerificationController.verifyFirstMessages adds to the report.          *)
(***************************************************************************)

\* ((a / b) * 100).toFixed(2) + '%': 0 / 0 is NaN and a / 0 is Infinity, and
\* toFixed renders them "NaN" and "Infinity".
rate(a, b) ==
  IF b = 0
  THEN [text |-> IF a = 0 THEN "NaN%" ELSE "Infinity%", hundredths |-> 0]
  ELSE [text |-> "toFixed(2)%", hundredths |-> toFixed2(Frac(a, b))]

\* The literal '0%'.
ZeroPercent == [text |-> "0%", hundredths |-> 0]

\* total > 0 ? ((unmatched / total) * 100).toFixed(2) + '%' : '0%'
unmatchedRate(stats) ==
  IF stats.total > 0 THEN rate(stats.unmatched, stats.total) ELSE ZeroPercent

\* new Date(sentDate).toISOString().split('T')[0]: the UTC calendar date; a
\* day is two ticks of the model's clock.
isoDate(sentDate) == sentDate \div 2

\* msg.dbMessage.type || 'unknown'
typeKey(msg) ==
  IF msg.dbMessage.type = NoType THEN "unknown" ELSE msg.dbMessage.type

NewGroup == [count |-> 0, messages |-> <<>>]

\* addToGroup replacing the list of the group instead of pushing on it.
addToGroupReplacing(g, msg) == [count |-> g.count + 1, messages |-> <<msg>>]

\* grouped[key].count++; grouped[key].messages.push(msg)
addToGroup(g, msg) == [count |-> g.count + 1, messages |-> Append(g.messages, msg)]

\* One turn of the loop of a grouping: if (!grouped[key]) grouped[key] = {...}
groupStep(grouped, key, msg) ==
  LET g == IF key \in DOMAIN grouped THEN grouped[key] ELSE NewGroup
  IN [x \in DOMAIN grouped \cup {key} |->
        IF x = key THEN addToGroup(g, msg) ELSE grouped[x]]

\* The grouped object, as a function from its keys.
NoGroups == [x \in {} |-> NewGroup]

RECURSIVE groupUnmatchedByType(_)
groupUnmatchedByType(unmatchedMessages) ==
  IF unmatchedMessages = <<>> THEN NoGroups
  ELSE LET n == Len(unmatchedMessages)
           msg == unmatchedMessages[n]
       IN groupStep(groupUnmatchedByType(SubSeq(unmatchedMessages, 1, n - 1)),
                    typeKey(msg), msg)

RECURSIVE groupUnmatchedByPhoneNumber(_)
groupUnmatchedByPhoneNumber(unmatchedMessages) ==
  IF unmatchedMessages = <<>> THEN NoGroups
  ELSE LET n == Len(unmatchedMessages)
           msg == unmatchedMessages[n]
       IN groupStep(groupUnmatchedByPhoneNumber(SubSeq(unmatchedMessages, 1, n - 1)),
                    msg.dbMessage.phoneNumber, msg)

RECURSIVE groupUnmatchedByDate(_)
groupUnmatchedByDate(unmatchedMessages) ==
  IF unmatchedMessages = <<>> THEN NoGroups
  ELSE LET n == Len(unmatchedMessages)
           msg == unmatchedMessages[n]
       IN groupStep(groupUnmatchedByDate(SubSeq(unmatchedMessages, 1, n - 1)),
                    isoDate(msg.dbMessage.sentDate), msg)

\* report.summary, without the request's period and phone numbers, which the
\* report copies from the request.
summaryOf(matchResults) ==
  LET s == matchResults.statistics IN
  [totalMessagesInDB |-> s.totalDbMessages,
   totalMessagesInAPI |-> s.totalApiMessages,
   matchedMessages |-> s.matchedCount,
   unmatchedMessages |-> s.unmatchedCount,
   matchRate |-> rate(s.matchedCount, s.totalDbMessages),
   averageConfidence |-> s.averageConfidence,
   firstMessageStats |->
     [total |-> s.firstMessageStats.total,
      matched |-> s.firstMessageStats.matched,
      unmatched |-> s.firstMessageStats.unmatched,
      unmatchedRate |-> unmatchedRate(s.firstMessageStats)]]

generateVerificationReport(matchResults, details) ==
  IF details
  THEN [summary |-> summaryOf(matchResults),
        details |-> [matchedMessages |-> matchResults.matched,
                     unmatchedMessages |-> matchResults.unmatched],
        analysis |->
          [unmatchedByType |-> groupUnmatchedByType(matchResults.unmatched),
           unmatchedByPhoneNumber |->
             groupUnmatchedByPhoneNumber(matchResults.unmatched),
           unmatchedByDate |-> groupUnmatchedByDate(matchResults.unmatched)]]
  ELSE [summary |-> summaryOf(matchResults)]

\* The documents of Messages.find({type_of_message: 'first_message', ...});
\* every message of the period is an assistant message here, so they are the
\* first messages among dbMessages.
firstMessagesOf(dbMsgs) == SelectSeq(dbMsgs, isFirst)

\* [...new Set(firstMessages.map(m => m.phone_number))]
uniquePhoneNumbersOf(firstMessages) ==
  { firstMessages[n].phone_number : n \in 1..Len(firstMessages) }

\* result.report.firstMessageAnalysis = {...}
firstMessageAnalysis(rep, firstMessages) ==
  [totalFirstMessages |-> Len(firstMessages),
   uniquePhoneNumbers |-> Cardinality(uniquePhoneNumbersOf(firstMessages)),
   unmatchedFirstMessages |-> rep.summary.firstMessageStats.unmatched,
   failureRate |-> rate(rep.summary.firstMessageStats.unmatched,
                        Len(firstMessages))]

\* No report yet.
NoReport == [none |-> TRUE]

(***************************************************************************)
(* WhatsAppAPIService (src/src/services/whatsappApi.js): the provider, the *)
(* cache, and the three fetch functions as functions of the cache, the     *)
(* clock and what the provider answers.                                    *)
(***************************************************************************)

PAGINATION_LIMITS == <<50, 100, 200, 500, 1000>>

\* this.cacheExpiry, in milliseconds.
cacheExpiry == 5 * 60 * 1000

UserIds == {"u1", "u2"}
Phones == {"p1", "p2", "p3"}

\* fromDate and toDate of a call, as the cache keys have them.
Period == "1000_2000"

\* `${userId}_${fromDate.getTime()}_${toDate.getTime()}_${limit}` and
\* `${userId}_${phoneNumber}_${fromDate.getTime()}_${toDate.getTime()}`; a
\* request to the provider is named by the key its response is cached under.
recentKey(userId, period, limit) ==
  [endpoint |-> "recent", userId |-> userId, phoneNumber |-> "", period |-> period,
   limit |-> limit]

phoneKey(userId, phoneNumber, period) ==
  [endpoint |-> "by-phone-number", userId |-> userId, phoneNumber |-> phoneNumber,
   period |-> period, limit |-> 0]

\* new Map()
EmptyCache == [key \in {} |-> [data |-> <<>>, timestamp |-> 0]]

\* this.cache.set(cacheKey, { data, timestamp: Date.now() })
cacheSet(c, key, data, t) ==
  [x \in DOMAIN c \cup {key} |->
     IF x = key THEN [data |-> data, timestamp |-> t] ELSE c[x]]

\* this.cache.delete(cacheKey)
cacheDelete(c, key) == [x \in DOMAIN c \ {key} |-> c[x]]

\* IsFresh with an entry still taken for fresh at the age of cacheExpiry.
IsFreshAtExpiry(entry, t) == t - entry.timestamp <= cacheExpiry

\* Date.now() - cached.timestamp < this.cacheExpiry
IsFresh(entry, t) == t - entry.timestamp < cacheExpiry

\* A message of the provider: its body and its Unix time in seconds, which
\* may be missing.
ProviderMsg(body, timestamp) == [body |-> body, timestamp |-> timestamp]

\* The messages field of a conversation when it is no array of message
\* objects: a value without map, or an array with a null in it.
NotMessages == <<ProviderMsg(<<"<no message object>">>, Undefined)>>

\* A conversation of a recent-chats answer; rank is its place in the
\* provider's list of the user's conversations, most recent first.
Conversation(rank, to, messages) == [rank |-> rank, to |-> to, messages |-> messages]


\* response.data of a recent-chats request: an array of length conversations,
\* of which the model lists those with one of its phone numbers, or a value
\* that is no array (the body of an answer that reports a failure).
ConversationList(length, conversations) ==
  [iterable |-> TRUE, length |-> length, conversations |-> conversations]

EmptyList == ConversationList(0, <<>>)

NotAList == [iterable |-> FALSE, length |-> Undefined, conversations |-> <<>>]

\* What the provider has for a user: total conversations, the listed ones
\* among them, or malformed answers.
RecentChats(malformed, total, conversations) ==
  [malformed |-> malformed, total |-> total, conversations |-> conversations]

\* The recent chats a user may have: none; one conversation with p1; one
\* conversation with p1 whose messages are malformed; sixty conversations,
\* with p1 the most recent and p2 the 55th; answers that are no array.
RecentChatsOptions ==
  { RecentChats(FALSE, 0, <<>>),
    RecentChats(FALSE, 1, <<Conversation(1, "p1", NotMessages)>>),
    RecentChats(FALSE, 1, <<Conversation(1, "p1", <<ProviderMsg(T_abcdef, 1)>>)>>),
    RecentChats(FALSE, 60, <<Conversation(1, "p1", <<ProviderMsg(T_xy, 2)>>),
                             Conversation(55, "p2", <<ProviderMsg(T_abcdef, 1), ProviderMsg(T_abcde, Undefined)>>)>>),
    RecentChats(TRUE, 0, <<>>) }

\* response.data of a by-phone-number request: one conversation object.
PhoneChats(messages) == [present |-> TRUE, messages |-> messages]

\* The messages a user may have with p2 by the by-phone-number endpoint.
PhoneChatsOptions == { PhoneChats(<<>>), PhoneChats(<<ProviderMsg(T_xy, 2), ProviderMsg(T_abcde, Undefined)>>) }

\* The providers: the recent chats of each user (u2 has none or one
\* well-formed conversation), and the by-phone-number chats of u2 with p2 (there are none
\* of u1, and none with another number).
Providers ==
  { [recent |-> r, byPhone |-> b] :
      r \in { f \in [UserIds -> RecentChatsOptions] :
                /\ ~f["u2"].malformed /\ f["u2"].total <= 1
                /\ \A n \in 1..Len(f["u2"].conversations) :
                     f["u2"].conversations[n].messages # NotMessages },
      b \in { f \in [UserIds -> PhoneChatsOptions] : f["u1"].messages = <<>> } }

\* The answer to a recent-chats request with a limit: the limit most recent
\* conversations.
recentResponse(chats, limit) ==
  IF chats.malformed THEN NotAList
  ELSE ConversationList(IF chats.total < limit THEN chats.total ELSE limit,
                        SelectSeq(chats.conversations, LAMBDA cv : cv.rank <= limit))

\* The answer to a by-phone-number request.
phoneResponse(provider, userId, phoneNumber) ==
  IF phoneNumber = "p2" THEN provider.byPhone[userId] ELSE PhoneChats(<<>>)

\* The requests that can be made.
RecentRequests(userId) ==
  { recentKey(userId, Period, PAGINATION_LIMITS[n]) : n \in 1..Len(PAGINATION_LIMITS) }

PhoneRequests(userId) == { phoneKey(userId, p, Period) : p \in Phones }

\* The requests that fail during one call: none; the first recent-chats
\* request of u1; every request of u1; every by-phone-number request; all.
FailureScenarios ==
  { {},
    {recentKey("u1", Period, 50)},
    RecentRequests("u1") \cup PhoneRequests("u1"),
    PhoneRequests("u1") \cup PhoneRequests("u2"),
    RecentRequests("u1") \cup PhoneRequests("u1")
      \cup RecentRequests("u2") \cup PhoneRequests("u2") }

\* LengthBelow with a response that fills its limit taken for the last one.
LengthAtMost(list, limit) == list.length # Undefined /\ list.length <= limit

\* allMessages.length < limit; the length of a value that is no array is
\* undefined, and the comparison false.
LengthBelow(list, limit) == list.length # Undefined /\ list.length < limit

\* What a call did: the requests it made to the provider, the keys of the
\* cache entries it returned and of those it deleted, in order.
NoLog == [requests |-> <<>>, hits |-> <<>>, deleted |-> <<>>]

\* fetchWhatsAppMessages from limit number n of PAGINATION_LIMITS on.
RECURSIVE fetchWithLimits(_, _, _, _, _, _, _, _)
fetchWithLimits(userId, period, env, n, currentLimit, allMessages, c, log) ==
  IF n > Len(PAGINATION_LIMITS)
  THEN [data |-> allMessages, cache |-> c, log |-> log]
  ELSE LET limit == PAGINATION_LIMITS[n]
           key == recentKey(userId, period, limit)
           cached == key \in DOMAIN c
           c1 == IF cached THEN cacheDelete(c, key) ELSE c
           response == recentResponse(env.provider.recent[userId], limit)
           c2 == cacheSet(c1, key, response, env.now)
           asked == [log EXCEPT !.requests = Append(@, key),
                                !.deleted = IF cached THEN Append(@, key) ELSE @]
           hit == [log EXCEPT !.hits = Append(@, key)]
       IN IF limit < currentLimit
          THEN fetchWithLimits(userId, period, env, n + 1, currentLimit,
                               allMessages, c, log)
          ELSE IF cached /\ IsFresh(c[key], env.now)
          THEN [data |-> c[key].data, cache |-> c, log |-> hit]
          ELSE IF key \in env.failing
          THEN fetchWithLimits(userId, period, env, n + 1, currentLimit,
                               allMessages, c1, asked)
          ELSE IF LengthBelow(response, limit)
          THEN [data |-> response, cache |-> c2, log |-> asked]
          ELSE fetchWithLimits(userId, period, env, n + 1, limit, response, c2, asked)

\* fetchWhatsAppMessages(userId, fromDate, toDate, initialLimit), with the
\* cache it leaves, and the requests it made and the cache entries it
\* returned added to log.
fetchWhatsAppMessages(userId, period, initialLimit, env, c, log) ==
  fetchWithLimits(userId, period, env, 1, initialLimit, EmptyList, c, log)

\* data && data.messages && data.messages.length > 0
hasMessages(data) == data.present /\ Len(data.messages) > 0

\* fetchMessagesByPhoneNumber from user number n of userIds on.
RECURSIVE fetchByPhoneFrom(_, _, _, _, _, _, _)
fetchByPhoneFrom(userIds, phoneNumber, period, env, n, c, log) ==
  IF n > Len(userIds)
  THEN [found |-> FALSE, data |-> [present |-> FALSE, messages |-> <<>>], userId |-> "", cache |-> c,
        log |-> log]
  ELSE LET userId == userIds[n]
           key == phoneKey(userId, phoneNumber, period)
           cached == key \in DOMAIN c
           c1 == IF cached THEN cacheDelete(c, key) ELSE c
           response == phoneResponse(env.provider, userId, phoneNumber)
           c2 == cacheSet(c1, key, response, env.now)
           asked == [log EXCEPT !.requests = Append(@, key),
                                !.deleted = IF cached THEN Append(@, key) ELSE @]
           hit == [log EXCEPT !.hits = Append(@, key)]
       IN IF cached /\ IsFresh(c[key], env.now) /\ hasMessages(c[key].data)
          THEN [found |-> TRUE, data |-> c[key].data, userId |-> userId,
                cache |-> c, log |-> hit]
          ELSE IF key \in env.failing
          THEN fetchByPhoneFrom(userIds, phoneNumber, period, env, n + 1, c1, asked)
          ELSE IF hasMessages(response)
          THEN [found |-> TRUE, data |-> response, userId |-> userId,
                cache |-> c2, log |-> asked]
          ELSE fetchByPhoneFrom(userIds, phoneNumber, period, env, n + 1, c2, asked)

\* fetchMessagesByPhoneNumber(userIds, phoneNumber, fromDate, toDate): found
\* is false for the null it returns when no user has messages.
fetchMessagesByPhoneNumber(userIds, phoneNumber, period, env, c, log) ==
  fetchByPhoneFrom(userIds, phoneNumber, period, env, 1, c, log)

\* new Date(msg.timestamp * 1000), in milliseconds: an Invalid Date when the
\* timestamp is missing.
toDate(timestamp) == IF timestamp = Undefined THEN NaN ELSE timestamp * 1000

\* msg.timestamp ? new Date(msg.timestamp * 1000) : new Date()
toDateOrNow(timestamp, t) ==
  IF timestamp = Undefined \/ timestamp = 0 THEN t ELSE timestamp * 1000

\* The message in the consistent format (role, from, to, type and hasMedia
\* are copied and left out here).
Transformed(msg, date, userId) ==
  [body |-> msg.body, message |-> msg.body, timestamp |-> date, userId |-> userId]

\* conversation.messages?.map(...) of the recent-chats loop
transformRecent(messages, userId) ==
  [n \in 1..Len(messages) |->
     Transformed(messages[n], toDate(messages[n].timestamp), userId)]

\* phoneResponse.data.messages?.map(...) of the missing-numbers loop
transformByPhone(messages, userId, t) ==
  [n \in 1..Len(messages) |->
     Transformed(messages[n], toDateOrNow(messages[n].timestamp, t), userId)]

\* The elements of a list.
Range(s) == { s[n] : n \in 1..Len(s) }

\* allMessages.find(m => m.phoneNumber === phoneNumber), as a position (0:
\* none).
findEntry(allMessages, phoneNumber) ==
  IF \E n \in 1..Len(allMessages) : allMessages[n].phoneNumber = phoneNumber
  THEN CHOOSE n \in 1..Len(allMessages) :
         /\ allMessages[n].phoneNumber = phoneNumber
         /\ \A m \in 1..(n - 1) : allMessages[m].phoneNumber # phoneNumber
  ELSE 0

\* if (existingEntry) existingEntry.messages.push(...transformedMessages)
\* else allMessages.push({ phoneNumber, messages, success: true })
addMessages(allMessages, phoneNumber, messages) ==
  LET n == findEntry(allMessages, phoneNumber) IN
  IF n # 0
  THEN [allMessages EXCEPT ![n].messages = @ \o messages]
  ELSE Append(allMessages,
              [phoneNumber |-> phoneNumber, messages |-> messages, success |-> TRUE])

\* phoneNumbers.length === 0 || phoneNumbers.includes(phoneNumber)
isRequested(phoneNumbers, phoneNumber) ==
  Len(phoneNumbers) = 0 \/ phoneNumber \in Range(phoneNumbers)

\* The message of the TypeError of a for-of loop over what is no array, and
\* of the one of conversation.messages?.map(...) over what is no array of
\* message objects.
NOT_ITERABLE == "apiResponse is not iterable"
NOT_A_FUNCTION == "conversation.messages?.map is not a function"

\* for (const conversation of apiResponse) from conversation n + 1 on; s holds
\* allMessages, errors, foundPhoneNumbers, the cache and the log, and the
\* message of the error thrown ("" while none is).  foundPhoneNumbers.add
\* comes before the transformation that may throw.
RECURSIVE forEachConversation(_, _, _, _, _)
forEachConversation(s, conversations, n, userId, phoneNumbers) ==
  IF n >= Len(conversations) \/ s.thrown # "" THEN s
  ELSE LET conversation == conversations[n + 1]
           phoneNumber == conversation.to
       IN forEachConversation(
            IF ~isRequested(phoneNumbers, phoneNumber) THEN s
            ELSE IF conversation.messages = NotMessages
            THEN [s EXCEPT
                    !.foundPhoneNumbers = @ \cup {phoneNumber},
                    !.thrown = NOT_A_FUNCTION]
            ELSE [s EXCEPT
                    !.foundPhoneNumbers = @ \cup {phoneNumber},
                    !.allMessages =
                       addMessages(@, phoneNumber,
                                   transformRecent(conversation.messages, userId))],
            conversations, n + 1, userId, phoneNumbers)

\* errors.push({ userId, error: error.message, success: false })
userError(userId, message) == [userId |-> userId, error |-> message, success |-> FALSE]

\* catch (error) { errors.push({ userId, error: error.message, ... }) }
catchError(s, userId) ==
  IF s.thrown # ""
  THEN [s EXCEPT !.errors = Append(@, userError(userId, s.thrown)), !.thrown = ""]
  ELSE s

\* for (const userId of userIds) { try {...} catch {...} } from user n + 1 on.
RECURSIVE forEachUserId(_, _, _, _, _, _)
forEachUserId(s, userIds, n, phoneNumbers, period, env) ==
  IF n >= Len(userIds) THEN s
  ELSE LET userId == userIds[n + 1]
           apiResponse == fetchWhatsAppMessages(userId, period, 50, env, s.cache,
                                                s.log)
           fetched == [s EXCEPT !.cache = apiResponse.cache, !.log = apiResponse.log]
       IN forEachUserId(
            catchError(IF apiResponse.data.iterable
                       THEN forEachConversation(fetched,
                                                apiResponse.data.conversations, 0,
                                                userId, phoneNumbers)
                       ELSE [fetched EXCEPT !.thrown = NOT_ITERABLE],
                       userId),
            userIds, n + 1, phoneNumbers, period, env)

\* for (const phoneNumber of missingPhoneNumbers) from number n + 1 on.
RECURSIVE forEachMissing(_, _, _, _, _, _)
forEachMissing(s, missingPhoneNumbers, n, userIds, period, env) ==
  IF n >= Len(missingPhoneNumbers) THEN s
  ELSE LET phoneNumber == missingPhoneNumbers[n + 1]
           response == fetchMessagesByPhoneNumber(userIds, phoneNumber, period, env,
                                                   s.cache, s.log)
           fetched == [s EXCEPT !.cache = response.cache, !.log = response.log]
       IN forEachMissing(
            IF response.found
            THEN [fetched EXCEPT
                    !.foundPhoneNumbers = @ \cup {phoneNumber},
                    !.allMessages =
                       addMessages(@, phoneNumber,
                                   transformByPhone(response.data.messages,
                                                    response.userId, env.now))]
            ELSE [fetched EXCEPT
                    !.allMessages =
                       Append(@, [phoneNumber |-> phoneNumber, messages |-> <<>>,
                                  success |-> TRUE])],
            missingPhoneNumbers, n + 1, userIds, period, env)

\* errors.push({ error: 'No user IDs provided', success: false })
NO_USER_IDS == [error |-> "No user IDs provided", success |-> FALSE]

\* fetchMessagesForPhoneNumbers(phoneNumbers, userIds, fromDate, toDate): what
\* it returns, with the cache it leaves and the log of its requests.
fetchMessagesForPhoneNumbers(phoneNumbers, userIds, period, env, c) ==
  LET start == [allMessages |-> <<>>, errors |-> <<>>, foundPhoneNumbers |-> {},
                cache |-> c, log |-> NoLog, thrown |-> ""]
      users == forEachUserId(start, userIds, 0, phoneNumbers, period, env)
      missingPhoneNumbers ==
        SelectSeq(phoneNumbers, LAMBDA phone : phone \notin users.foundPhoneNumbers)
      all == IF Len(phoneNumbers) > 0
             THEN forEachMissing(users, missingPhoneNumbers, 0, userIds, period, env)
             ELSE users
  IN IF Len(userIds) = 0
     THEN [messages |-> <<>>, errors |-> <<NO_USER_IDS>>, cache |-> c,
           log |-> NoLog]
     ELSE [messages |-> all.allMessages, errors |-> all.errors, cache |-> all.cache,
           log |-> all.log]

\* VerificationService.flattenApiMessages: the pool for the matcher.
RECURSIVE flattenApiMessages(_)
flattenApiMessages(apiResponses) ==
  IF apiResponses = <<>> THEN <<>>
  ELSE (IF apiResponses[1].success THEN apiResponses[1].messages ELSE <<>>)
         \o flattenApiMessages(Tail(apiResponses))

(***************************************************************************)
(* The state.                                                              *)
(***************************************************************************)
VARIABLES
  dbMessages,         \* the internal records of the request, as fetched
  apiMessages,        \* the external pool, as fetched and flattened
  batchSize,          \* batchSize of batchMatchMessages
  matchingThreshold,  \* matchingThreshold of the request, in percent
  pc,                 \* where the request is
  i,                  \* batchMatchMessages: start of the current batch
  batch,              \* matchMessages: its dbMessages
  k,                  \* matchMessages: records of the batch already handled
  best,               \* matchMessages: bestMatch, bestScore, bestIndex
  matchedApiIndices,  \* matchMessages: the consumed pool positions
  results,            \* matchMessages: its results
  allResults,         \* batchMatchMessages: the merged results
  apiMessagesCopy,    \* matchMessages: the pool it was given
  batchHistory,       \* the invocations of matchMessages that have returned
  includeDetails,     \* includeDetails of the request
  report,             \* the report of generateVerificationReport
  text,               \* normalizeMessage: its argument
  normalized,         \* normalizeMessage(text)
  renormalized,       \* normalizeMessage(normalizeMessage(text))
  textPc,             \* where the caller of normalizeMessage is
  messageA,           \* calculateSimilarity: one message
  messageB,           \* calculateSimilarity: the other message
  similarity,         \* calculateSimilarity(messageA, messageB)
  similarityReversed, \* calculateSimilarity(messageB, messageA)
  simPc,              \* where the caller of calculateSimilarity is
  cache,              \* WhatsAppAPIService: this.cache
  now,                \* Date.now(), in milliseconds
  provider,           \* what the WhatsApp provider has
  call,               \* the last call of the service, its failing requests, its time
  returned,           \* what the last call returned, and the requests it made
  fetches             \* the calls so far

reportVars == <<includeDetails, report>>

matcherVars == <<dbMessages, apiMessages, batchSize, matchingThreshold, pc, i,
                 batch, k, best, matchedApiIndices, results, allResults,
                 apiMessagesCopy, batchHistory, reportVars>>

textVars == <<text, normalized, renormalized, textPc>>

simVars == <<messageA, messageB, similarity, similarityReversed, simPc>>

fetchVars == <<cache, now, provider, call, returned, fetches>>

vars == <<matcherVars, textVars, simVars, fetchVars>>

\* The calls followed, and the ticks of the clock; a tick is half of
\* cacheExpiry.
MaxFetches == 2
MaxTicks == 2
TickLength == cacheExpiry \div 2

\* The arguments of the calls. A call names the phone numbers it asks for.

\* The service after construction (whatsappApi.js:7-10: an empty cache), with
\* no call made yet, in front of one of the given providers.
NewService(providers) ==
  /\ cache = EmptyCache
  /\ now = 0
  /\ provider \in providers
  /\ call = [op |-> "none", phoneNumbers |-> <<>>, userIds |-> <<>>,
             initialLimit |-> 0, failing |-> {}, at |-> now]
  /\ returned = [value |-> <<>>, errors |-> <<>>, requests |-> <<>>, hits |-> <<>>,
                  deleted |-> <<>>]
  /\ fetches = 0

\* No call of the service is followed.
IdleFetch == NewService({CHOOSE p \in Providers : TRUE})

\* No call of normalizeMessage is under way.
IdleText ==
  /\ text = <<>>
  /\ normalized = <<>>
  /\ renormalized = <<>>
  /\ textPc = "idle"

\* No call of calculateSimilarity on its own is under way.
IdleSimilarity ==
  /\ messageA = <<>>
  /\ messageB = <<>>
  /\ similarity = Zero
  /\ similarityReversed = Zero
  /\ simPc = "idle"

inputs == <<dbMessages, apiMessages, batchSize, matchingThreshold>>

\* The state before the request is handled, for a batch size out of sizes.
InitWith(sizes) ==
  /\ dbMessages \in SortedDbLists
  /\ apiMessages \in SeqsUpTo(ApiRecords, MaxApi)
  /\ batchSize \in sizes
  /\ matchingThreshold \in MatchingThresholds
  /\ pc = "request"
  /\ i = 0
  /\ batch = <<>>
  /\ k = 0
  /\ best = NoBest
  /\ matchedApiIndices = {}
  /\ results = EmptyResults(0, 0)
  /\ allResults = EmptyResults(0, 0)
  /\ apiMessagesCopy = <<>>
  /\ batchHistory = <<>>
  /\ includeDetails = TRUE
  /\ report = NoReport
  /\ IdleText
  /\ IdleSimilarity
  /\ IdleFetch

Init == InitWith(1..MaxBatchSize)

\* VerificationController.verifyMessages: if (matchingThreshold < 0.9 ||
\* matchingThreshold > 1) return res.status(400)
ThresholdRejected(t) == t < SIMILARITY_THRESHOLD \/ t > MAX_SIMILARITY_THRESHOLD

\* The request is refused with status 400.
RejectRequest ==
  /\ pc = "request"
  /\ ThresholdRejected(matchingThreshold)
  /\ pc' = "rejected"
  /\ UNCHANGED <<inputs, i, batch, k, best, matchedApiIndices, results, allResults,
                 apiMessagesCopy, batchHistory, reportVars>>
  /\ UNCHANGED <<textVars, simVars, fetchVars>>

\* The request passes validation; VerificationService.verifyMessages calls
\* batchMatchMessages(dbMessages, allApiMessages), which builds allResults.
VerifyMessages ==
  /\ pc = "request"
  /\ ~ThresholdRejected(matchingThreshold)
  /\ allResults' = EmptyResults(Len(dbMessages), Len(apiMessages))
  /\ i' = 0
  /\ pc' = "batchLoop"
  /\ UNCHANGED <<inputs, batch, k, best, matchedApiIndices, results,
                 apiMessagesCopy, batchHistory, reportVars>>
  /\ UNCHANGED <<textVars, simVars, fetchVars>>

\* slice without its second argument: everything from the index on.
sliceToEnd(s, from, to) ==
  IF from >= Len(s) THEN <<>> ELSE SubSeq(s, from + 1, Len(s))

\* Array.prototype.slice(from, to), 0-based, to exclusive; a negative index
\* counts from the end of the array.
slice(s, from, to) ==
  LET len == Len(s)
      rel(n) == IF n < 0 THEN (IF len + n < 0 THEN 0 ELSE len + n)
                ELSE (IF n > len THEN len ELSE n)
      lo == rel(from)
      hi == rel(to)
  IN IF lo >= hi THEN <<>> ELSE SubSeq(s, lo + 1, hi)

\* The argument batchMatchMessages gives matchMessages for the pool.
poolArgument(pool, from, size) == pool

\* The consumed positions kept from one invocation to the next.
keptMatchedApiIndices(previous) == previous

\* const matchedApiIndices = new Set(): each invocation starts with none,
\* whatever the invocation before it consumed.
newMatchedApiIndices(previous) == {}

\* The turns of the batch loop the model follows: one more than there are
\* records, which only a loop that does not advance reaches.
MaxCalls == MaxDb + 1

\* One turn of the batch loop: the slice, and the entry of matchMessages.
StartBatch ==
  /\ pc = "batchLoop"
  /\ i < Len(dbMessages)
  /\ Len(batchHistory) < MaxCalls
  /\ batch' = slice(dbMessages, i, i + batchSize)
  /\ apiMessagesCopy' = poolArgument(apiMessages, i, batchSize)
  /\ results' = EmptyResults(Len(batch'), Len(apiMessagesCopy'))
  /\ matchedApiIndices' = newMatchedApiIndices(matchedApiIndices)
  /\ k' = 0
  /\ best' = NoBest
  /\ pc' = "forEach"
  /\ UNCHANGED <<inputs, i, allResults, batchHistory, reportVars>>
  /\ UNCHANGED <<textVars, simVars, fetchVars>>

\* for (const dbMsg of dbMessages): the first-message count and the search.
Scan ==
  /\ pc = "forEach"
  /\ k < Len(batch)
  /\ LET dbMsg == batch[k + 1] IN
       /\ results' = countFirst(results, dbMsg)
       /\ best' = findBest(dbMsg, apiMessagesCopy, matchedApiIndices, 0, NoBest)
  /\ pc' = "emit"
  /\ UNCHANGED <<inputs, i, batch, k, matchedApiIndices, allResults,
                 apiMessagesCopy, batchHistory, reportVars>>
  /\ UNCHANGED <<textVars, simVars, fetchVars>>

\* The outcome of dbMsg: Matched (and the position consumed) or Unmatched.
Emit ==
  /\ pc = "emit"
  /\ LET dbMsg == batch[k + 1] IN
       /\ matchedApiIndices' = consume(matchedApiIndices, best)
       /\ results' = pushOutcome(results, dbMsg, best)
  /\ k' = k + 1
  /\ pc' = "forEach"
  /\ UNCHANGED <<inputs, i, batch, best, allResults, apiMessagesCopy,
                 batchHistory, reportVars>>
  /\ UNCHANGED <<textVars, simVars, fetchVars>>

\* The end of matchMessages: the average confidence, and the return.
ReturnResults ==
  /\ pc = "forEach"
  /\ k >= Len(batch)
  /\ results' = withAverage(results)
  /\ pc' = "returned"
  /\ UNCHANGED <<inputs, i, batch, k, best, matchedApiIndices, allResults,
                 apiMessagesCopy, batchHistory, reportVars>>
  /\ UNCHANGED <<textVars, simVars, fetchVars>>

\* mergeInto assigning the batch's matched list instead of appending it.
mergeIntoAssigning(all, r) ==
  [all EXCEPT
     !.matched = r.matched,
     !.unmatched = @ \o r.unmatched,
     !.statistics.matchedCount = @ + r.statistics.matchedCount,
     !.statistics.unmatchedCount = @ + r.statistics.unmatchedCount,
     !.statistics.firstMessageStats.total = @ + r.statistics.firstMessageStats.total,
     !.statistics.firstMessageStats.matched = @ + r.statistics.firstMessageStats.matched,
     !.statistics.firstMessageStats.unmatched =
        @ + r.statistics.firstMessageStats.unmatched]

\* mergeInto without the sums of matchedCount and unmatchedCount.
mergeIntoKeepingCounts(all, r) ==
  [all EXCEPT
     !.matched = @ \o r.matched,
     !.unmatched = @ \o r.unmatched,
     !.statistics.firstMessageStats.total = @ + r.statistics.firstMessageStats.total,
     !.statistics.firstMessageStats.matched = @ + r.statistics.firstMessageStats.matched,
     !.statistics.firstMessageStats.unmatched =
        @ + r.statistics.firstMessageStats.unmatched]

\* Merge batch results, update statistics, i += batchSize.
mergeInto(all, r) ==
  [all EXCEPT
     !.matched = @ \o r.matched,
     !.unmatched = @ \o r.unmatched,
     !.statistics.matchedCount = @ + r.statistics.matchedCount,
     !.statistics.unmatchedCount = @ + r.statistics.unmatchedCount,
     !.statistics.firstMessageStats.total = @ + r.statistics.firstMessageStats.total,
     !.statistics.firstMessageStats.matched = @ + r.statistics.firstMessageStats.matched,
     !.statistics.firstMessageStats.unmatched =
        @ + r.statistics.firstMessageStats.unmatched]

MergeBatch ==
  /\ pc = "returned"
  /\ allResults' = mergeInto(allResults, results)
  /\ batchHistory' = Append(batchHistory,
                            [batch |-> batch, apiMessages |-> apiMessagesCopy,
                             batchResults |-> results])
  /\ i' = i + batchSize
  /\ pc' = "batchLoop"
  /\ UNCHANGED <<inputs, batch, k, best, matchedApiIndices, results,
                 apiMessagesCopy, reportVars>>
  /\ UNCHANGED <<textVars, simVars, fetchVars>>

\* The end of batchMatchMessages: the recalculated average, and the return.
ReturnAllResults ==
  /\ pc = "batchLoop"
  /\ i >= Len(dbMessages)
  /\ allResults' = withAverage(allResults)
  /\ pc' = "done"
  /\ UNCHANGED <<inputs, i, batch, k, best, matchedApiIndices, results,
                 apiMessagesCopy, batchHistory, reportVars>>
  /\ UNCHANGED <<textVars, simVars, fetchVars>>

\* Step 6 of VerificationService.verifyMessages, for either value of the
\* request's includeDetails.
GenerateReport ==
  /\ pc = "done"
  /\ \E d \in BOOLEAN :
       /\ includeDetails' = d
       /\ report' = generateVerificationReport(allResults, d)
  /\ pc' = "reported"
  /\ UNCHANGED <<inputs, i, batch, k, best, matchedApiIndices, results, allResults,
                 apiMessagesCopy, batchHistory>>
  /\ UNCHANGED <<textVars, simVars, fetchVars>>

\* The request was POST /api/verify/first-messages: a threshold of 0.9,
\* includeDetails true and the phone numbers of the first messages, if any.
FromFirstMessagesEndpoint ==
  LET firstMessages == firstMessagesOf(dbMessages) IN
  /\ matchingThreshold = SIMILARITY_THRESHOLD
  /\ includeDetails
  /\ \/ firstMessages = <<>>
     \/ \A n \in 1..Len(dbMessages) :
          dbMessages[n].phone_number \in uniquePhoneNumbersOf(firstMessages)

\* VerificationController.verifyFirstMessages adds its analysis to the report.
AddFirstMessageAnalysis ==
  /\ pc = "reported"
  /\ FromFirstMessagesEndpoint
  /\ report' = [summary |-> report.summary, details |-> report.details,
                analysis |-> report.analysis,
                firstMessageAnalysis |->
                  firstMessageAnalysis(report, firstMessagesOf(dbMessages))]
  /\ pc' = "analysed"
  /\ UNCHANGED <<inputs, i, batch, k, best, matchedApiIndices, results, allResults,
                 apiMessagesCopy, batchHistory, includeDetails>>
  /\ UNCHANGED <<textVars, simVars, fetchVars>>

Next ==
  \/ RejectRequest
  \/ VerifyMessages
  \/ StartBatch
  \/ Scan
  \/ Emit
  \/ ReturnResults
  \/ MergeBatch
  \/ ReturnAllResults
  \/ GenerateReport
  \/ AddFirstMessageAnalysis

Spec == Init /\ [][Next]_vars

\* The same program given a batch size below one.

SpecBatchSizeBelowOne == InitWith({-1, 0}) /\ [][Next]_vars

(***************************************************************************)
(* Definitions the properties are stated with.                             *)
(***************************************************************************)
Positions(s) == 1..Len(s)
PoolIndices == 0..(Len(apiMessages) - 1)

\* The similarity of an internal record and the pool record at index idx.
ScoreAt(dbMsg, idx) == calculateSimilarity(dbMsg.message, apiText(apiMessages[idx + 1]))

\* a < b on time values, false when either is not a time.
StrictlyEarlier(a, b) == a # NaN /\ b # NaN /\ a < b

\* a <= b on time values, false when either is not a time.
NotLater(a, b) == a # NaN /\ b # NaN /\ a <= b

\* The pool indices not consumed whose record is not strictly earlier than dbMsg.
Candidates(dbMsg, consumed) ==
  { idx \in PoolIndices \ consumed :
      ~StrictlyEarlier(apiDate(apiMessages[idx + 1]), dbMsg.sent_date) }

\* The number of outcomes of a result that refer to the internal record id.
OutcomesOf(r, id) ==
  Cardinality({ p \in Positions(r.matched) : r.matched[p].dbMessage.id = id })
  + Cardinality({ p \in Positions(r.unmatched) : r.unmatched[p].dbMessage.id = id })

\* Each given record in exactly one outcome, and the counts add up.
Partitioned(r, given) ==
  /\ Len(r.matched) + Len(r.unmatched) = Len(given)
  /\ r.statistics.matchedCount + r.statistics.unmatchedCount
       = r.statistics.totalDbMessages
  /\ r.statistics.totalDbMessages = Len(given)
  /\ \A p \in Positions(given) : OutcomesOf(r, given[p]._id) = 1

(***************************************************************************)
(* C1: when matchMessages returns, every internal record of the batch is   *)
(* in exactly one outcome, len(matched) + len(unmatched) is the number of  *)
(* records given and matchedCount + unmatchedCount = totalDbMessages; the  *)
(* same holds of the merged result when batchMatchMessages returns.        *)
(***************************************************************************)
C1_EveryRecordInOneOutcome ==
  /\ pc = "returned" => Partitioned(results, batch)
  /\ pc = "done" => Partitioned(allResults, dbMessages)

\* A run of several batches that ends with matched and unmatched outcomes.
C1_Witness ==
  /\ pc = "done"
  /\ batchSize < Len(dbMessages)
  /\ Len(allResults.matched) >= 1
  /\ Len(allResults.unmatched) >= 1

(***************************************************************************)
(* C2: within one matchMessages invocation no pool position is referenced  *)
(* by two Matched outcomes, and the position found for the record at hand  *)
(* is never one an earlier record of the batch consumed.                   *)
(***************************************************************************)
C2_ExternalMatchedOncePerBatch ==
  pc \in {"forEach", "emit", "returned"} =>
    /\ \A p, q \in Positions(results.matched) :
         p # q => results.matched[p].apiIndex # results.matched[q].apiIndex
    /\ matchedApiIndices = { results.matched[p].apiIndex : p \in Positions(results.matched) }
    /\ pc = "emit" => best.bestIndex \notin matchedApiIndices

\* The second Matched outcome of a batch took another record than the first,
\* although the record the first one consumed scores higher for it.
C2_Witness ==
  /\ pc = "returned"
  /\ Len(results.matched) = 2
  /\ FracGT(ScoreAt(batch[2], results.matched[1].apiIndex),
            results.matched[2].confidenceScore)

(***************************************************************************)
(* C3: every Matched outcome, of a batch and of the merged result, has a   *)
(* confidence score >= the configured similarity threshold.                *)
(***************************************************************************)
C3_MatchedAtLeastThreshold ==
  /\ \A p \in Positions(results.matched) :
       results.matched[p].confidenceScore.num * 100
         >= SIMILARITY_THRESHOLD * results.matched[p].confidenceScore.den
  /\ \A p \in Positions(allResults.matched) :
       allResults.matched[p].confidenceScore.num * 100
         >= SIMILARITY_THRESHOLD * allResults.matched[p].confidenceScore.den

\* A Matched outcome with a score below 1, next to a candidate below the
\* threshold that was left out.
C3_Witness ==
  /\ pc = "done"
  /\ \E p \in Positions(allResults.matched) :
       allResults.matched[p].confidenceScore # One
  /\ \E p \in Positions(allResults.unmatched) : \E idx \in PoolIndices :
       LET sc == calculateSimilarity(allResults.unmatched[p].dbMessage.message,
                                     apiText(apiMessages[idx + 1]))
       IN FracGT(sc, Zero) /\ ~GEPct(sc, SIMILARITY_THRESHOLD)

(***************************************************************************)
(* More definitions the properties are stated with.                        *)
(***************************************************************************)
Last(s) == s[Len(s)]

\* The Emit step appends a Matched (an Unmatched) outcome.
EmitsMatched == pc = "emit" /\ Len(results'.matched) = Len(results.matched) + 1
EmitsUnmatched == pc = "emit" /\ Len(results'.unmatched) = Len(results.unmatched) + 1

\* The highest score among the candidates of dbMsg, 0 when there is none.
BestCandidateScore(dbMsg, consumed) ==
  LET scores == { ScoreAt(dbMsg, idx) : idx \in Candidates(dbMsg, consumed) }
  IN IF scores = {} THEN Zero
     ELSE CHOOSE sc \in scores : \A other \in scores : FracGE(sc, other)

(***************************************************************************)
(* C4: the threshold of the request is the one applied: the record at hand *)
(* gets a Matched outcome if and only if the best score among its          *)
(* candidates is >= matchingThreshold.                                     *)
(***************************************************************************)
C4_RequestThresholdApplied ==
  [][pc = "emit" =>
       (EmitsMatched <=>
          GEPct(BestCandidateScore(batch[k + 1], matchedApiIndices), matchingThreshold))]_vars

(***************************************************************************)
(* C5: the record found for the record at hand is never strictly earlier   *)
(* than it, a candidate that is equal or later and reaches the threshold   *)
(* is found, and every Matched outcome has internal timestamp <= external  *)
(* timestamp.                                                              *)
(***************************************************************************)
C5_MatchedNotBeforeInternal ==
  /\ pc = "emit" =>
       /\ best.bestIndex # -1 =>
            ~StrictlyEarlier(apiDate(apiMessages[best.bestIndex + 1]), batch[k + 1].sent_date)
       /\ (\E idx \in Candidates(batch[k + 1], matchedApiIndices) :
             GEPct(ScoreAt(batch[k + 1], idx), SIMILARITY_THRESHOLD))
            => best.bestIndex # -1
  /\ \A p \in Positions(results.matched) :
       NotLater(results.matched[p].dbMessage.sentDate, results.matched[p].apiMessage.timestamp)

(***************************************************************************)
(* C6: a Matched outcome is for the record at hand, in batch order, and    *)
(* its external record is the candidate of the highest score, the earliest *)
(* in pool order among those of that score.                                *)
(***************************************************************************)
C6_BestCandidateFirstSeen ==
  [][EmitsMatched =>
       LET dbMsg == batch[k + 1]
           m == Last(results'.matched)
           cands == Candidates(dbMsg, matchedApiIndices)
       IN /\ m.dbMessage.id = dbMsg._id
          /\ m.apiIndex \in cands
          /\ m.confidenceScore = ScoreAt(dbMsg, m.apiIndex)
          /\ \A idx \in cands : FracGE(m.confidenceScore, ScoreAt(dbMsg, idx))
          /\ \A idx \in cands :
               idx < m.apiIndex => FracGT(m.confidenceScore, ScoreAt(dbMsg, idx))]_vars

\* A search that found a record although a later candidate has the same score.
C6_Witness ==
  /\ pc = "emit"
  /\ best.bestIndex # -1
  /\ \E idx \in Candidates(batch[k + 1], matchedApiIndices) :
       idx > best.bestIndex /\ ScoreAt(batch[k + 1], idx) = best.bestScore

(***************************************************************************)
(* C7: an Unmatched outcome carries the best score among the candidates of *)
(* its record (0 when there is none), and its reason is the below-         *)
(* threshold one when that score is > 0, the no-candidate one otherwise.   *)
(***************************************************************************)
C7_UnmatchedCarriesBestScore ==
  [][EmitsUnmatched =>
       LET u == Last(results'.unmatched)
           observed == BestCandidateScore(batch[k + 1], matchedApiIndices)
       IN /\ u.bestMatchScore = observed
          /\ u.reason = IF FracGT(observed, Zero)
                        THEN BELOW_THRESHOLD_REASON ELSE NO_MATCH_REASON]_vars

(***************************************************************************)
(* C8: an internal record for which the pool is empty or holds only        *)
(* records strictly earlier than it is Unmatched with the no-candidate     *)
(* reason and best score 0, whatever the texts.                            *)
(***************************************************************************)
NoEligibleRecord(dbMsg) ==
  \A idx \in PoolIndices : StrictlyEarlier(apiDate(apiMessages[idx + 1]), dbMsg.sent_date)

UnmatchedNoCandidate(r, dbMsg) ==
  /\ \E p \in Positions(r.unmatched) :
       /\ r.unmatched[p].dbMessage.id = dbMsg._id
       /\ r.unmatched[p].bestMatchScore = Zero
       /\ r.unmatched[p].reason = NO_MATCH_REASON
  /\ \A p \in Positions(r.matched) : r.matched[p].dbMessage.id # dbMsg._id

C8_NoEligibleIsNoCandidate ==
  /\ pc \in {"forEach", "emit", "returned"} =>
       \A p \in 1..k : NoEligibleRecord(batch[p]) => UnmatchedNoCandidate(results, batch[p])
  /\ pc = "done" =>
       \A p \in Positions(dbMessages) :
         NoEligibleRecord(dbMessages[p]) => UnmatchedNoCandidate(allResults, dbMessages[p])

\* A record left Unmatched although an earlier pool record has its very text.
C8_Witness ==
  /\ pc = "returned"
  /\ \E p \in Positions(batch) :
       /\ NoEligibleRecord(batch[p])
       /\ \E idx \in PoolIndices : ScoreAt(batch[p], idx) = One

(***************************************************************************)
(* C9 as stated: for a pair of identical normalized text with internal     *)
(* timestamp <= external timestamp, the score is 1 and, the external       *)
(* record not being consumed, the record at hand is Matched with it.       *)
(***************************************************************************)
IsText(message) == message # Null

IdenticalNormalized(dbMsg, apiMsg) ==
  /\ IsText(dbMsg.message)
  /\ IsText(apiText(apiMsg))
  /\ normalizeMessage(dbMsg.message) = normalizeMessage(apiText(apiMsg))

C9_IdenticalPairMatches ==
  [][pc = "emit" =>
       \A idx \in PoolIndices \ matchedApiIndices :
         (/\ IdenticalNormalized(batch[k + 1], apiMessages[idx + 1])
          /\ NotLater(batch[k + 1].sent_date, apiDate(apiMessages[idx + 1])))
         => /\ ScoreAt(batch[k + 1], idx) = One
            /\ EmitsMatched
            /\ Last(results'.matched).apiIndex = idx]_vars

(***************************************************************************)
(* C9 amended: for a pair of non-empty texts of identical normalized text  *)
(* with internal timestamp <= external timestamp, the score is 1 and, the  *)
(* external record not being consumed, the record at hand is Matched with  *)
(* score 1, with the first candidate in pool order that scores 1.          *)
(***************************************************************************)
C9_IdenticalPairMatchesFirstSeen ==
  [][pc = "emit" =>
       \A idx \in PoolIndices \ matchedApiIndices :
         (/\ IdenticalNormalized(batch[k + 1], apiMessages[idx + 1])
          /\ ~Falsy(batch[k + 1].message)
          /\ ~Falsy(apiText(apiMessages[idx + 1]))
          /\ NotLater(batch[k + 1].sent_date, apiDate(apiMessages[idx + 1])))
         => /\ ScoreAt(batch[k + 1], idx) = One
            /\ EmitsMatched
            /\ Last(results'.matched).dbMessage.id = batch[k + 1]._id
            /\ Last(results'.matched).confidenceScore = One
            /\ LET ones == { j \in Candidates(batch[k + 1], matchedApiIndices) :
                               ScoreAt(batch[k + 1], j) = One }
               IN /\ Last(results'.matched).apiIndex \in ones
                  /\ \A j \in ones : Last(results'.matched).apiIndex <= j]_vars

\* A record Matched with a pool record whose raw text differs from its own
\* and whose normalized text is the same, found before a later one like it.
C9_Witness ==
  /\ pc = "forEach"
  /\ k >= 1
  /\ Len(results.matched) >= 1
  /\ Last(results.matched).dbMessage.id = batch[k]._id
  /\ Last(results.matched).dbMessage.message # Last(results.matched).apiMessage.message
  /\ \E idx \in PoolIndices :
       /\ idx > Last(results.matched).apiIndex
       /\ idx \notin matchedApiIndices
       /\ IdenticalNormalized(batch[k], apiMessages[idx + 1])
       /\ NotLater(batch[k].sent_date, apiDate(apiMessages[idx + 1]))
  /\ IdenticalNormalized(batch[k], apiMessages[Last(results.matched).apiIndex + 1])

(***************************************************************************)
(* C10 as stated: of two records of a batch with the same text, both       *)
(* eligible for the one pool record that reaches the threshold, the        *)
(* earlier is Matched and the later is Unmatched.                          *)
(***************************************************************************)
\* The pool records not strictly earlier than dbMsg that reach the threshold.
Reaching(dbMsg) ==
  { idx \in PoolIndices :
      /\ ~StrictlyEarlier(apiDate(apiMessages[idx + 1]), dbMsg.sent_date)
      /\ GEPct(ScoreAt(dbMsg, idx), SIMILARITY_THRESHOLD) }

IsMatchedIn(r, dbMsg) == \E p \in Positions(r.matched) : r.matched[p].dbMessage.id = dbMsg._id
IsUnmatchedIn(r, dbMsg) ==
  \E p \in Positions(r.unmatched) : r.unmatched[p].dbMessage.id = dbMsg._id

\* Positions p < q of the batch hold the same text and share their one
\* pool record idx.
SameTextOneRecord(p, q, idx) ==
  /\ p < q
  /\ batch[p].message = batch[q].message
  /\ Reaching(batch[p]) = {idx}
  /\ Reaching(batch[q]) = {idx}

C10_FirstOfTwoMatches ==
  pc = "returned" =>
    \A p, q \in Positions(batch) : \A idx \in PoolIndices :
      SameTextOneRecord(p, q, idx) =>
        /\ IsMatchedIn(results, batch[p])
        /\ IsUnmatchedIn(results, batch[q])

(***************************************************************************)
(* C10 amended: the same, provided no record of the batch before the two   *)
(* has consumed that pool record.                                          *)
(***************************************************************************)
ConsumedBefore(p, idx) ==
  \E r \in 1..(p - 1) : \E m \in Positions(results.matched) :
    /\ results.matched[m].dbMessage.id = batch[r]._id
    /\ results.matched[m].apiIndex = idx

C10_FirstOfTwoMatchesUnlessConsumed ==
  pc = "returned" =>
    \A p, q \in Positions(batch) : \A idx \in PoolIndices :
      (SameTextOneRecord(p, q, idx) /\ ~ConsumedBefore(p, idx)) =>
        /\ IsMatchedIn(results, batch[p])
        /\ \E m \in Positions(results.matched) :
             /\ results.matched[m].dbMessage.id = batch[p]._id
             /\ results.matched[m].apiIndex = idx
        /\ IsUnmatchedIn(results, batch[q])
        /\ ~IsMatchedIn(results, batch[q])

\* Two records of the same text after a record of another text, sharing one
\* pool record that the first of the two got.
C10_Witness ==
  /\ pc = "returned"
  /\ \E p, q \in Positions(batch) : \E idx \in PoolIndices :
       /\ SameTextOneRecord(p, q, idx)
       /\ p > 1
       /\ ~ConsumedBefore(p, idx)
       /\ Len(apiMessages) > 1
       /\ IsMatchedIn(results, batch[p])
       /\ IsUnmatchedIn(results, batch[q])


(***************************************************************************)
(* Batching.                                                               *)
(***************************************************************************)

\* The least whole number of batches of size that hold n records.
ceilDiv(n, size) == (n + size - 1) \div size

\* Record numbers from..to of dbMessages, to cut down to the last record.
Records(from, to) ==
  SubSeq(dbMessages, from, IF to > Len(dbMessages) THEN Len(dbMessages) ELSE to)

\* The matched and the unmatched lists of the invocations of history, one
\* after the other.
RECURSIVE MatchedOf(_)
MatchedOf(history) ==
  IF history = <<>> THEN <<>>
  ELSE history[1].batchResults.matched \o MatchedOf(Tail(history))

RECURSIVE UnmatchedOf(_)
UnmatchedOf(history) ==
  IF history = <<>> THEN <<>>
  ELSE history[1].batchResults.unmatched \o UnmatchedOf(Tail(history))

InMatcher == pc \in {"forEach", "emit", "returned"}
Coordinated == pc \in {"done", "reported", "analysed"}

\* C11: with batchSize >= 1, invocation j of matchMessages is given records
\* (j-1)*batchSize+1 .. j*batchSize of the internal list (fewer only at the end
\* of the list) and the whole external pool; batchMatchMessages returns after
\* exactly ceil(n / batchSize) invocations; its merged matched and unmatched
\* lists are the lists of the invocations one after the other.
C11_BatchesAreContiguousSlices ==
  /\ \A j \in 1..Len(batchHistory) :
       /\ batchHistory[j].batch = Records((j - 1) * batchSize + 1, j * batchSize)
       /\ Len(batchHistory[j].batch) >= 1
       /\ Len(batchHistory[j].batch) < batchSize => j * batchSize > Len(dbMessages)
       /\ batchHistory[j].apiMessages = apiMessages
  /\ InMatcher =>
       /\ batch = Records(Len(batchHistory) * batchSize + 1,
                          (Len(batchHistory) + 1) * batchSize)
       /\ Len(batch) >= 1
       /\ apiMessagesCopy = apiMessages
  /\ pc = "batchLoop" \/ Coordinated =>
       /\ allResults.matched = MatchedOf(batchHistory)
       /\ allResults.unmatched = UnmatchedOf(batchHistory)
  /\ Coordinated => Len(batchHistory) = ceilDiv(Len(dbMessages), batchSize)

\* Three records in batches of two: both batches match a record, and one
\* record is unmatched.
C11_Witness ==
  /\ pc = "done"
  /\ Len(dbMessages) = 3
  /\ batchSize = 2
  /\ Len(batchHistory) = 2
  /\ Len(batchHistory[2].batch) = 1
  /\ batchHistory[1].batchResults.matched # <<>>
  /\ batchHistory[2].batchResults.matched # <<>>
  /\ allResults.unmatched # <<>>

\* The place of the internal record id in dbMessages, and its batch.
PositionOf(id) == CHOOSE n \in 1..Len(dbMessages) : dbMessages[n]._id = id
BatchOf(id) == (PositionOf(id) - 1) \div batchSize + 1

\* Two Matched outcomes of the merged result refer to one pool position.
SharePoolPosition(a, b) ==
  /\ a # b
  /\ allResults.matched[a].apiIndex = allResults.matched[b].apiIndex

\* C12: two Matched outcomes of the merged result that refer to the same
\* external record come from different batches (at most once holds per batch),
\* and such a pair exists for some inputs with more records than batchSize (the
\* witness), so at most once does not hold for the whole run.
C12_ReuseOnlyAcrossBatches ==
  \A a, b \in 1..Len(allResults.matched) :
    SharePoolPosition(a, b) =>
      BatchOf(allResults.matched[a].dbMessage.id)
        # BatchOf(allResults.matched[b].dbMessage.id)

\* A finished run with more records than batchSize whose merged result has two
\* Matched outcomes for one external record.
C12_Witness ==
  /\ pc = "done"
  /\ Len(dbMessages) > batchSize
  /\ \E a, b \in 1..Len(allResults.matched) : SharePoolPosition(a, b)

\* No external record is matched in more than one batch of the run.
NoCrossBatchReuse ==
  \A a, b \in 1..Len(allResults.matched) : ~SharePoolPosition(a, b)

\* One matchMessages run over all the internal records and the pool.
SingleRun == matchMessages(dbMessages, apiMessages)

\* C13: when batchMatchMessages has returned and no external record was
\* matched in more than one batch, its merged matched list, unmatched list and
\* statistics are those of one matchMessages run over all the internal
\* records; so a run that differs from the single run has a reused record.
C13_BatchedEqualsSingleRun ==
  pc = "done" /\ NoCrossBatchReuse =>
    /\ allResults.matched = SingleRun.matched
    /\ allResults.unmatched = SingleRun.unmatched
    /\ allResults.statistics = SingleRun.statistics

\* Three records in batches of one, matched with two different external
\* records and no reuse.
C13_Witness ==
  /\ pc = "done"
  /\ batchSize < Len(dbMessages)
  /\ Len(batchHistory) >= 2
  /\ NoCrossBatchReuse
  /\ Len(allResults.matched) >= 2
  /\ Len(allResults.unmatched) >= 1
  /\ allResults.matched = SingleRun.matched

(***************************************************************************)
(* The report.                                                             *)
(***************************************************************************)

Reported == pc \in {"reported", "analysed"}

\* A rate field that reads "0%" (or "0.00%").
IsZeroPercent(r) == r.text \in {"0%", "toFixed(2)%"} /\ r.hundredths = 0

\* C14: with zero internal records the report has zero counts and a match
\* rate of "0%", and with zero first messages the failure rate that the
\* first-messages endpoint adds is "0%".
C14_NoDataRatesAreZeroPercent ==
  /\ Reported /\ Len(dbMessages) = 0 =>
       /\ report.summary.totalMessagesInDB = 0
       /\ report.summary.matchedMessages = 0
       /\ report.summary.unmatchedMessages = 0
       /\ IsZeroPercent(report.summary.matchRate)
  /\ pc = "analysed" /\ firstMessagesOf(dbMessages) = <<>> =>
       IsZeroPercent(report.firstMessageAnalysis.failureRate)

\* The outcomes of a list whose internal record is a first message.
FirstOutcomes(outcomes) ==
  SelectSeq(outcomes, LAMBDA o : o.dbMessage.type = FIRST_MESSAGE)

\* The first-message counts of r are those of the records it was given.
FirstStatsCount(r, records) ==
  LET stats == r.statistics.firstMessageStats IN
  /\ stats.total = Len(SelectSeq(records, isFirst))
  /\ stats.matched = Len(FirstOutcomes(r.matched))
  /\ stats.unmatched = Len(FirstOutcomes(r.unmatched))
  /\ stats.total = stats.matched + stats.unmatched

\* C15: in the result of every matchMessages invocation and in the merged
\* result, firstMessageStats.total is the number of internal records tagged
\* first message, matched and unmatched are the numbers of Matched and
\* Unmatched outcomes of such records, and total = matched + unmatched; the
\* report copies the three counts and its unmatchedRate is "0%" when total is 0.
C15_FirstMessageStatsConsistent ==
  /\ pc = "returned" => FirstStatsCount(results, batch)
  /\ \A j \in 1..Len(batchHistory) :
       FirstStatsCount(batchHistory[j].batchResults, batchHistory[j].batch)
  /\ Coordinated => FirstStatsCount(allResults, dbMessages)
  /\ Reported =>
       LET stats == report.summary.firstMessageStats IN
       /\ stats.total = allResults.statistics.firstMessageStats.total
       /\ stats.matched = allResults.statistics.firstMessageStats.matched
       /\ stats.unmatched = allResults.statistics.firstMessageStats.unmatched
       /\ stats.total = 0 => stats.unmatchedRate.text = "0%"

\* A report over two batches with a matched and an unmatched first message
\* and a record that is no first message.
C15_Witness ==
  /\ pc = "reported"
  /\ Len(batchHistory) >= 2
  /\ report.summary.firstMessageStats.matched >= 1
  /\ report.summary.firstMessageStats.unmatched >= 1
  /\ report.summary.firstMessageStats.total < Len(dbMessages)

\* The sum of the counts of the groups of grouped with a key in keys.
RECURSIVE SumOfCounts(_, _)
SumOfCounts(grouped, keys) ==
  IF keys = {} THEN 0
  ELSE LET key == CHOOSE x \in keys : TRUE
       IN grouped[key].count + SumOfCounts(grouped, keys \ {key})

\* The places of grouped where the outcome msg is listed.
PlacesOf(grouped, msg) ==
  { <<key, n>> \in UNION { {key} \X (1..Len(grouped[key].messages)) :
                            key \in DOMAIN grouped } :
      grouped[key].messages[n] = msg }

\* grouped puts every outcome of unmatched in exactly one group, each group
\* counts its list, and the counts add up to the length of unmatched.
PartitionsUnmatched(grouped, unmatched) ==
  /\ \A n \in 1..Len(unmatched) : Cardinality(PlacesOf(grouped, unmatched[n])) = 1
  /\ \A key \in DOMAIN grouped :
       /\ grouped[key].count = Len(grouped[key].messages)
       /\ grouped[key].count >= 1
  /\ SumOfCounts(grouped, DOMAIN grouped) = Len(unmatched)

\* C16: a report with includeDetails has the two lists and three groupings
\* of the unmatched list, by type, by phone number and by UTC date; each puts
\* every Unmatched outcome in exactly one group (the group of its key), each
\* group's count is the length of its list, and the counts of a grouping add up
\* to the unmatched count. A report without includeDetails has the summary only.
C16_GroupingsPartitionUnmatched ==
  Reported =>
    IF includeDetails
    THEN /\ {"summary", "details", "analysis"} \subseteq DOMAIN report
         /\ report.details.matchedMessages = allResults.matched
         /\ report.details.unmatchedMessages = allResults.unmatched
         /\ PartitionsUnmatched(report.analysis.unmatchedByType, allResults.unmatched)
         /\ PartitionsUnmatched(report.analysis.unmatchedByPhoneNumber,
                                allResults.unmatched)
         /\ PartitionsUnmatched(report.analysis.unmatchedByDate, allResults.unmatched)
         /\ SumOfCounts(report.analysis.unmatchedByType,
                        DOMAIN report.analysis.unmatchedByType)
              = report.summary.unmatchedMessages
         /\ \A n \in 1..Len(allResults.unmatched) :
              LET msg == allResults.unmatched[n] IN
              /\ \E p \in PlacesOf(report.analysis.unmatchedByType, msg) :
                   p[1] = typeKey(msg)
              /\ \E p \in PlacesOf(report.analysis.unmatchedByPhoneNumber, msg) :
                   p[1] = msg.dbMessage.phoneNumber
              /\ \E p \in PlacesOf(report.analysis.unmatchedByDate, msg) :
                   p[1] = isoDate(msg.dbMessage.sentDate)
    ELSE DOMAIN report = {"summary"}

\* A detailed report of three unmatched records: one without a type, two of
\* one phone number, and two dates.
C16_Witness ==
  /\ pc = "reported"
  /\ includeDetails
  /\ Len(allResults.unmatched) = 3
  /\ "unknown" \in DOMAIN report.analysis.unmatchedByType
  /\ \E key \in DOMAIN report.analysis.unmatchedByPhoneNumber :
       report.analysis.unmatchedByPhoneNumber[key].count = 2
  /\ Cardinality(DOMAIN report.analysis.unmatchedByDate) = 2

(***************************************************************************)
(* A batch size below one.                                                 *)
(***************************************************************************)

\* C17: given a batchSize below one, batchMatchMessages is refused before any
\* matching: matchMessages is never invoked, the loop is never entered, and no
\* result is returned as if the run had succeeded.
C17_BatchSizeBelowOneRejected ==
  batchSize < 1 => /\ ~InMatcher
                   /\ batchHistory = <<>>
                   /\ ~Coordinated

(***************************************************************************)
(* normalizeMessage on its own: a caller applies it to a text, and to the  *)
(* result once more.                                                       *)
(***************************************************************************)

\* The longest text given to normalizeMessage.
MaxLen == 5

\* The arguments: every text of up to MaxLen characters out of a lower case
\* letter, an upper case letter, a space and a punctuation mark, and a missing
\* one.
Texts == SeqsUpTo({"a", "B", " ", "!"}, MaxLen) \cup {Null}

\* No request to the matcher is under way.
IdleMatcher ==
  /\ dbMessages = <<>>
  /\ apiMessages = <<>>
  /\ batchSize = 1
  /\ matchingThreshold = SIMILARITY_THRESHOLD
  /\ pc = "idle"
  /\ i = 0
  /\ batch = <<>>
  /\ k = 0
  /\ best = NoBest
  /\ matchedApiIndices = {}
  /\ results = EmptyResults(0, 0)
  /\ allResults = EmptyResults(0, 0)
  /\ apiMessagesCopy = <<>>
  /\ batchHistory = <<>>
  /\ includeDetails = TRUE
  /\ report = NoReport

InitNormalizer ==
  /\ text \in Texts
  /\ normalized = <<>>
  /\ renormalized = <<>>
  /\ textPc = "call"
  /\ IdleMatcher
  /\ IdleSimilarity
  /\ IdleFetch

\* normalizeMessage(text) returns.
Normalize ==
  /\ textPc = "call"
  /\ normalizeMessage(text) # TypeError
  /\ normalized' = normalizeMessage(text)
  /\ textPc' = "normalized"
  /\ UNCHANGED <<text, renormalized>>
  /\ UNCHANGED <<matcherVars, simVars, fetchVars>>

\* normalizeMessage(text) throws.
NormalizeThrows ==
  /\ textPc = "call"
  /\ normalizeMessage(text) = TypeError
  /\ textPc' = "thrown"
  /\ UNCHANGED <<text, normalized, renormalized>>
  /\ UNCHANGED <<matcherVars, simVars, fetchVars>>

\* normalizeMessage applied to its own result.
NormalizeAgain ==
  /\ textPc = "normalized"
  /\ renormalized' = normalizeMessage(normalized)
  /\ textPc' = "renormalized"
  /\ UNCHANGED <<text, normalized>>
  /\ UNCHANGED <<matcherVars, simVars, fetchVars>>

NextNormalizer ==
  \/ Normalize
  \/ NormalizeThrows
  \/ NormalizeAgain

SpecNormalizer == InitNormalizer /\ [][NextNormalizer]_vars

\* C19: normalizeMessage(normalizeMessage(x)) = normalizeMessage(x) for every
\* text x.
C19_NormalizeIdempotent ==
  textPc = "renormalized" => renormalized = normalized

\* C20: normalizeMessage never fails, and an empty or missing text
\* normalizes to the empty string.
C20_NormalizeTotal ==
  /\ textPc # "thrown"
  /\ textPc = "normalized" /\ Falsy(text) => normalized = <<>>

(***************************************************************************)
(* The service in use: calls of its functions one after another, while the *)
(* clock advances and the cache is cleared.                                *)
(***************************************************************************)

\* constructor(): an empty cache; the provider is any of Providers.
InitFetch ==
  /\ NewService(Providers)
  /\ IdleMatcher
  /\ IdleText
  /\ IdleSimilarity

FetchMessagesForPhoneNumbers ==
  /\ fetches < MaxFetches
  /\ \E phoneNumbers \in {<<"p2">>, <<"p1", "p2">>},
        userIds \in {<<>>, <<"u1">>, <<"u1", "u2">>},
        failing \in FailureScenarios :
       LET r == fetchMessagesForPhoneNumbers(phoneNumbers, userIds, Period,
                                             [now |-> now, provider |-> provider, failing |-> failing], cache)
       IN /\ cache' = r.cache
          /\ call' = [op |-> "fetchMessagesForPhoneNumbers",
                      phoneNumbers |-> phoneNumbers, userIds |-> userIds,
                      initialLimit |-> 50, failing |-> failing, at |-> now]
          /\ returned' = [value |-> r.messages, errors |-> r.errors,
                          requests |-> r.log.requests, hits |-> r.log.hits,
                          deleted |-> r.log.deleted]
  /\ fetches' = fetches + 1
  /\ UNCHANGED <<now, provider>>
  /\ UNCHANGED <<matcherVars, textVars, simVars>>

FetchWhatsAppMessages ==
  /\ fetches < MaxFetches
  /\ \E userId \in {"u1"}, initialLimit \in {50, 200},
        failing \in FailureScenarios :
       LET r == fetchWhatsAppMessages(userId, Period, initialLimit,
                                      [now |-> now, provider |-> provider, failing |-> failing], cache, NoLog)
       IN /\ cache' = r.cache
          /\ call' = [op |-> "fetchWhatsAppMessages", phoneNumbers |-> <<>>,
                      userIds |-> <<userId>>, initialLimit |-> initialLimit,
                      failing |-> failing, at |-> now]
          /\ returned' = [value |-> r.data, errors |-> <<>>,
                          requests |-> r.log.requests, hits |-> r.log.hits,
                          deleted |-> r.log.deleted]
  /\ fetches' = fetches + 1
  /\ UNCHANGED <<now, provider>>
  /\ UNCHANGED <<matcherVars, textVars, simVars>>

FetchMessagesByPhoneNumber ==
  /\ fetches < MaxFetches
  /\ \E userIds \in {<<"u1", "u2">>}, phoneNumber \in {"p2"},
        failing \in FailureScenarios :
       LET r == fetchMessagesByPhoneNumber(userIds, phoneNumber, Period,
                                           [now |-> now, provider |-> provider, failing |-> failing], cache, NoLog)
       IN /\ cache' = r.cache
          /\ call' = [op |-> "fetchMessagesByPhoneNumber",
                      phoneNumbers |-> <<phoneNumber>>, userIds |-> userIds,
                      initialLimit |-> 0, failing |-> failing, at |-> now]
          /\ returned' = [value |-> [found |-> r.found, data |-> r.data,
                                     userId |-> r.userId],
                          errors |-> <<>>, requests |-> r.log.requests,
                          hits |-> r.log.hits, deleted |-> r.log.deleted]
  /\ fetches' = fetches + 1
  /\ UNCHANGED <<now, provider>>
  /\ UNCHANGED <<matcherVars, textVars, simVars>>

\* clearCache()
ClearCache ==
  /\ cache' = EmptyCache
  /\ call' = [op |-> "clearCache", phoneNumbers |-> <<>>, userIds |-> <<>>,
              initialLimit |-> 0, failing |-> {}, at |-> now]
  /\ returned' = [value |-> <<>>, errors |-> <<>>, requests |-> <<>>, hits |-> <<>>,
                  deleted |-> <<>>]
  /\ UNCHANGED <<now, provider, fetches>>
  /\ UNCHANGED <<matcherVars, textVars, simVars>>

\* Time passes between two calls.
Tick ==
  /\ now < MaxTicks * TickLength
  /\ now' = now + TickLength
  /\ UNCHANGED <<cache, provider, call, returned, fetches>>
  /\ UNCHANGED <<matcherVars, textVars, simVars>>

NextFetch ==
  \/ FetchMessagesForPhoneNumbers
  \/ FetchWhatsAppMessages
  \/ FetchMessagesByPhoneNumber
  \/ ClearCache
  \/ Tick

SpecFetch == InitFetch /\ [][NextFetch]_vars

\* The last call was fetchMessagesForPhoneNumbers for several identifiers.
FetchedForSeveral ==
  /\ call.op = "fetchMessagesForPhoneNumbers"
  /\ Len(call.userIds) >= 1
  /\ Len(call.phoneNumbers) >= 2 \/ Len(call.userIds) >= 2

\* The requests the last call made to an endpoint for a user or a number.
RequestsFor(endpoint, id) ==
  { key \in Range(returned.requests) :
      /\ key.endpoint = endpoint
      /\ key.userId = id \/ key.phoneNumber = id }

\* The external fetch for an identifier failed: requests were made for it,
\* every one of them failed, and nothing was returned for it from the cache.
FetchFailedFor(endpoint, id) ==
  /\ RequestsFor(endpoint, id) # {}
  /\ RequestsFor(endpoint, id) \subseteq call.failing
  /\ \A key \in Range(returned.hits) :
       ~(key.endpoint = endpoint /\ (key.userId = id \/ key.phoneNumber = id))

\* The returned errors list has an entry that names id.
ErrorNames(id) ==
  \E n \in 1..Len(returned.errors) :
    LET e == returned.errors[n] IN
    \/ "userId" \in DOMAIN e /\ e.userId = id
    \/ "phoneNumber" \in DOMAIN e /\ e.phoneNumber = id

\* The entries of the returned messages list for a phone number.
EntriesOf(phoneNumber) ==
  { n \in 1..Len(returned.value) : returned.value[n].phoneNumber = phoneNumber }

\* A failed identifier is named by an error entry.
FailuresAreRecorded ==
  /\ \A userId \in Range(call.userIds) :
       FetchFailedFor("recent", userId) => ErrorNames(userId)
  /\ \A phoneNumber \in Range(call.phoneNumbers) :
       FetchFailedFor("by-phone-number", phoneNumber) => ErrorNames(phoneNumber)

\* Every number asked for is returned, and a number whose fetch failed has
\* no records in the pool.
OthersAreReturned ==
  /\ \A phoneNumber \in Range(call.phoneNumbers) : EntriesOf(phoneNumber) # {}
  /\ \A phoneNumber \in Range(call.phoneNumbers) :
       FetchFailedFor("by-phone-number", phoneNumber) =>
         \A n \in EntriesOf(phoneNumber) : returned.value[n].messages = <<>>
  /\ Len(flattenApiMessages(returned.value))
       >= Cardinality({ n \in 1..Len(returned.value) :
                          returned.value[n].messages # <<>> })

\* C18: when fetchMessagesForPhoneNumbers fetches for several identifiers and
\* the fetch for one of them fails, the returned errors list has an entry
\* naming that identifier, every number asked for is still returned, and the
\* failed identifier has no records in the pool.
C18_PartialFailureRecorded ==
  FetchedForSeveral => FailuresAreRecorded /\ OthersAreReturned

(***************************************************************************)
(* calculateSimilarity on its own: a caller takes two messages and asks    *)
(* for their similarity in both orders.                                    *)
(***************************************************************************)
MaxSimLen == 3

\* The messages: every text of up to MaxSimLen characters out of two lower
\* case letters, an upper case letter, a space and a punctuation mark, and a
\* missing one.
SimilarityMessages == SeqsUpTo({"a", "b", "B", " ", "!"}, MaxSimLen) \cup {Null}

InitSimilarity ==
  /\ messageA \in SimilarityMessages
  /\ messageB \in SimilarityMessages
  /\ similarity = Zero
  /\ similarityReversed = Zero
  /\ simPc = "call"
  /\ IdleMatcher
  /\ IdleText
  /\ IdleFetch

\* calculateSimilarity(messageA, messageB) returns.
CalculateSimilarity ==
  /\ simPc = "call"
  /\ similarity' = calculateSimilarity(messageA, messageB)
  /\ simPc' = "calculated"
  /\ UNCHANGED <<messageA, messageB, similarityReversed>>
  /\ UNCHANGED <<matcherVars, textVars, fetchVars>>

\* calculateSimilarity(messageB, messageA) returns.
CalculateSimilarityReversed ==
  /\ simPc = "calculated"
  /\ similarityReversed' = calculateSimilarity(messageB, messageA)
  /\ simPc' = "reversed"
  /\ UNCHANGED <<messageA, messageB, similarity>>
  /\ UNCHANGED <<matcherVars, textVars, fetchVars>>

NextSimilarity ==
  \/ CalculateSimilarity
  \/ CalculateSimilarityReversed

SpecSimilarity == InitSimilarity /\ [][NextSimilarity]_vars

\* C21: calculateSimilarity(a, b) = calculateSimilarity(b, a) for all
\* messages a and b, and the result is 0 whenever one of them is null or
\* empty.
C21_SimilaritySymmetricAndGuarded ==
  simPc = "reversed" =>
    /\ similarity = similarityReversed
    /\ (Falsy(messageA) \/ Falsy(messageB)) => similarity = Zero

\* Two different messages that share some of their bigrams, but not all.
C21_Witness ==
  /\ simPc = "reversed"
  /\ messageA # messageB
  /\ FracGT(similarity, Zero)
  /\ FracGT(One, similarity)

(***************************************************************************)
(* The merged average confidence.                                          *)
(***************************************************************************)

\* The sum of the confidence scores of outcomes number 1..n of matched.
RECURSIVE ScoreSum(_, _)
ScoreSum(matched, n) ==
  IF n = 0 THEN Zero
  ELSE FracAdd(ScoreSum(matched, n - 1), matched[n].confidenceScore)

\* The sum of the scores over the number of outcomes, as a percentage with
\* two decimals.
AverageOver(matched) ==
  LET s == ScoreSum(matched, Len(matched))
  IN [formatted |-> TRUE,
      hundredths |-> toFixed2(Frac(s.num, s.den * Len(matched)))]

\* The sum of the average confidences the invocations of history returned.
RECURSIVE SumOfBatchAverages(_)
SumOfBatchAverages(history) ==
  IF history = <<>> THEN 0
  ELSE history[1].batchResults.statistics.averageConfidence.hundredths
       + SumOfBatchAverages(Tail(history))

\* C22: the average confidence batchMatchMessages returns is the sum of the
\* confidence scores of its whole merged matched list over the length of the
\* list, which is what one matchMessages run reports for the same matched
\* outcomes; it is the number 0 when nothing is matched.
C22_MergedAverageFromFullList ==
  Coordinated =>
    /\ allResults.matched # <<>> =>
         /\ allResults.statistics.averageConfidence = AverageOver(allResults.matched)
         /\ allResults.matched = SingleRun.matched =>
              allResults.statistics.averageConfidence
                = SingleRun.statistics.averageConfidence
    /\ allResults.matched = <<>> =>
         allResults.statistics.averageConfidence = NoAverage

\* Two batches of different length, each with a match, whose averages do not
\* average to the merged average.
C22_Witness ==
  /\ pc = "done"
  /\ Len(batchHistory) = 2
  /\ \A j \in 1..2 : batchHistory[j].batchResults.matched # <<>>
  /\ Len(batchHistory[1].batchResults.matched)
       # Len(batchHistory[2].batchResults.matched)
  /\ SumOfBatchAverages(batchHistory)
       # 2 * allResults.statistics.averageConfidence.hundredths
  /\ SumOfBatchAverages(batchHistory) + 1
       # 2 * allResults.statistics.averageConfidence.hundredths
  /\ SumOfBatchAverages(batchHistory)
       # 2 * allResults.statistics.averageConfidence.hundredths + 1

(***************************************************************************)
(* The independence of the batches.                                        *)
(***************************************************************************)

\* The orders in which n batches can be taken.
Orders(n) == { f \in [1..n -> 1..n] : \A a, b \in 1..n : f[a] = f[b] => a = b }

\* The batches of history run on their own, each over its records and the
\* pool, in the given order from number m on, and merged into all.
RECURSIVE MergedFrom(_, _, _, _)
MergedFrom(history, order, m, all) ==
  IF m > Len(history) THEN withAverage(all)
  ELSE MergedFrom(history, order, m + 1,
                  mergeInto(all, matchMessages(history[order[m]].batch, apiMessages)))

MergedIn(order) ==
  MergedFrom(batchHistory, order, 1,
             EmptyResults(Len(dbMessages), Len(apiMessages)))

\* How often each outcome occurs in a list of outcomes.
Multiset(outcomes) ==
  [o \in { outcomes[n] : n \in 1..Len(outcomes) } |->
     Cardinality({ n \in 1..Len(outcomes) : outcomes[n] = o })]

\* C23: what an invocation of matchMessages returns is determined by its
\* batch and the external pool alone; and the batches run in any order and
\* merged give the counts, the first-message counts, the average confidence
\* and the multisets of matched and unmatched outcomes of the run in order.
C23_BatchesIndependent ==
  /\ \A j \in 1..Len(batchHistory) :
       batchHistory[j].batchResults = matchMessages(batchHistory[j].batch, apiMessages)
  /\ Coordinated =>
       \A order \in Orders(Len(batchHistory)) :
         LET merged == MergedIn(order) IN
           /\ merged.statistics = allResults.statistics
           /\ Multiset(merged.matched) = Multiset(allResults.matched)
           /\ Multiset(merged.unmatched) = Multiset(allResults.unmatched)

\* Three batches, two of which match the same external record, and an order
\* that gives the matched outcomes in another sequence.
C23_Witness ==
  /\ pc = "done"
  /\ Len(batchHistory) = 3
  /\ ~NoCrossBatchReuse
  /\ \E order \in Orders(3) : MergedIn(order).matched # allResults.matched

(***************************************************************************)
(* The cache.                                                              *)
(***************************************************************************)

\* A step that is a call of one of the fetch functions.
IsFetch == fetches' = fetches + 1

\* The entry under key is in c and has reached the age of cacheExpiry at t.
Expired(c, key, t) == key \in DOMAIN c /\ t - c[key].timestamp >= cacheExpiry

\* The first limit of PAGINATION_LIMITS from number n on that is not below
\* initialLimit (0 if there is none).
RECURSIVE FirstLimitFrom(_, _)
FirstLimitFrom(n, initialLimit) ==
  IF n > Len(PAGINATION_LIMITS) THEN 0
  ELSE IF PAGINATION_LIMITS[n] >= initialLimit THEN PAGINATION_LIMITS[n]
  ELSE FirstLimitFrom(n + 1, initialLimit)

\* The cache keys a call reads first, before any request.
FirstKeysRead(cl) ==
  IF cl.op = "fetchWhatsAppMessages"
  THEN {recentKey(cl.userIds[1], Period, FirstLimitFrom(1, cl.initialLimit))}
  ELSE IF cl.op = "fetchMessagesByPhoneNumber"
  THEN {phoneKey(cl.userIds[1], cl.phoneNumbers[1], Period)}
  ELSE IF cl.op = "fetchMessagesForPhoneNumbers" /\ cl.userIds # <<>>
  THEN {recentKey(cl.userIds[1], Period, 50)}
  ELSE {}

\* What fetchWhatsAppMessages or fetchMessagesByPhoneNumber returned is the
\* data of the entry under key.
ReturnedDataOf(entry) ==
  \/ call'.op = "fetchWhatsAppMessages" /\ returned'.value = entry.data
  \/ call'.op = "fetchMessagesByPhoneNumber" /\ returned'.value.data = entry.data
  \/ call'.op = "fetchMessagesForPhoneNumbers"

\* C24: a cache entry a fetch returns was in the cache before the call with
\* an age below cacheExpiry; an entry that has reached that age and is read
\* is requested again, and is then gone from the cache or replaced by the
\* response of now; after clearCache the cache holds no entry, so that a
\* later call returns only entries stored after it.
C24_ExpiryEnforcedAtRead ==
  [][/\ IsFetch =>
          /\ \A n \in 1..Len(returned'.hits) :
               LET key == returned'.hits[n] IN
                 /\ key \in DOMAIN cache
                 /\ now - cache[key].timestamp < cacheExpiry
                 /\ ReturnedDataOf(cache[key])
          /\ \A key \in FirstKeysRead(call') :
               Expired(cache, key, now) => key \in Range(returned'.requests)
          /\ \A key \in DOMAIN cache :
               (Expired(cache, key, now) /\ key \in Range(returned'.requests)) =>
                 /\ key \in Range(returned'.deleted)
                 /\ \/ key \notin DOMAIN cache'
                    \/ cache'[key].timestamp = now
     /\ call'.op = "clearCache" => cache' = EmptyCache
     /\ (call.op = "clearCache" /\ IsFetch) =>
          Range(returned'.hits) = {}]_vars

\* fetchWhatsAppMessages found an entry of the age of cacheExpiry, deleted it
\* and stored the response to a new request in its place, the other entry of
\* that age being left in the cache.
C24_Witness ==
  /\ call.op = "fetchWhatsAppMessages"
  /\ now >= cacheExpiry
  /\ \E key \in DOMAIN cache :
       /\ key \in Range(returned.deleted)
       /\ key \in Range(returned.requests)
       /\ cache[key].timestamp = now
       /\ returned.value = cache[key].data
  /\ \E key \in DOMAIN cache : now - cache[key].timestamp >= cacheExpiry

\* The step is a call of fetchWhatsAppMessages that repeats the call before
\* it, less than cacheExpiry after it, with no clearCache in between and no
\* request failing in either.
RepeatsFetch ==
  /\ IsFetch
  /\ call.op = "fetchWhatsAppMessages"
  /\ call'.op = "fetchWhatsAppMessages"
  /\ call'.userIds = call.userIds
  /\ call'.initialLimit = call.initialLimit
  /\ now - call.at < cacheExpiry
  /\ call.failing = {}
  /\ call'.failing = {}

\* C25: a call of fetchWhatsAppMessages that repeats the call before it
\* within the time of cacheExpiry, the provider's data being the same and the
\* cache not cleared, returns the conversation list the first call returned.
C25_RepeatedFetchReturnsSame ==
  [][RepeatsFetch => returned'.value = returned.value]_vars

(***************************************************************************)
(* The progressive fetch.                                                  *)
(***************************************************************************)

\* The step is a call of fetchWhatsAppMessages.
IsRecentFetch == IsFetch /\ call'.op = "fetchWhatsAppMessages"

\* The response the provider gives to a request, if the request succeeds.
ResponseTo(request) ==
  recentResponse(provider.recent[request.userId], request.limit)

\* A request that succeeds with fewer items than its limit.
IsLast(request, failing) ==
  /\ request \notin failing
  /\ ResponseTo(request).length # Undefined
  /\ ResponseTo(request).length < request.limit

\* The requests of a progressive fetch from limit number n on: one for each
\* limit that is not below initialLimit, in the order of PAGINATION_LIMITS,
\* up to the first that succeeds with fewer items than its limit.
RECURSIVE ProgressiveRequests(_, _, _, _)
ProgressiveRequests(userId, initialLimit, failing, n) ==
  IF n > Len(PAGINATION_LIMITS) THEN <<>>
  ELSE LET request == recentKey(userId, Period, PAGINATION_LIMITS[n])
       IN IF PAGINATION_LIMITS[n] < initialLimit
          THEN ProgressiveRequests(userId, initialLimit, failing, n + 1)
          ELSE IF IsLast(request, failing) THEN <<request>>
          ELSE <<request>> \o ProgressiveRequests(userId, initialLimit, failing, n + 1)

\* The response to the last of the first n requests that succeeded, and the
\* empty list if none did.
RECURSIVE MostRecentResponse(_, _, _)
MostRecentResponse(requests, failing, n) ==
  IF n = 0 THEN EmptyList
  ELSE IF requests[n] \notin failing THEN ResponseTo(requests[n])
  ELSE MostRecentResponse(requests, failing, n - 1)

\* The step made the requests of a progressive fetch and returned the most
\* recent response.
Progressive ==
  LET requests == ProgressiveRequests(call'.userIds[1], call'.initialLimit,
                                      call'.failing, 1)
  IN /\ returned'.requests = requests
     /\ returned'.value = MostRecentResponse(requests, call'.failing, Len(requests))
     /\ returned'.errors = <<>>

\* C26 as stated: every call of fetchWhatsAppMessages requests the limits of
\* PAGINATION_LIMITS that are not below the initial limit in ascending order,
\* one request per limit, skips a request that fails, stops after the first
\* response with fewer items than its limit, and returns the most recent
\* response (the empty list if every request failed).
C26_ProgressiveFetch ==
  [][IsRecentFetch => Progressive]_vars

\* C26 amended: the same of every call of fetchWhatsAppMessages that finds no
\* fresh cache entry under a key it reads.
C26_ProgressiveFetchOnMisses ==
  [][IsRecentFetch /\ returned'.hits = <<>> => Progressive]_vars

\* A call with an empty cache whose request with limit 50 failed and whose
\* request with limit 100 returned the 60 conversations there are.
C26_Witness ==
  /\ call.op = "fetchWhatsAppMessages"
  /\ call.initialLimit = 50
  /\ returned.hits = <<>>
  /\ Len(returned.requests) = 2
  /\ returned.requests[1] \in call.failing
  /\ returned.requests[2].limit = 100
  /\ returned.value.length = 60

(***************************************************************************)
(* The entries fetchMessagesForPhoneNumbers returns.                       *)
(***************************************************************************)

\* The last call was fetchMessagesForPhoneNumbers with some user IDs (the
\* phone numbers of a call are distinct, and there is at least one).
FetchedWithUserIds ==
  call.op = "fetchMessagesForPhoneNumbers" /\ call.userIds # <<>>

\* C27: the messages list fetchMessagesForPhoneNumbers returns for some user
\* IDs has exactly one entry for each requested phone number, and no entry
\* for another number.
C27_OneEntryPerRequested ==
  FetchedWithUserIds =>
    /\ \A p \in Range(call.phoneNumbers) : Cardinality(EntriesOf(p)) = 1
    /\ \A n \in 1..Len(returned.value) :
         returned.value[n].phoneNumber \in Range(call.phoneNumbers)
====
